---- MODULE Spec2Model ----
(***************************************************************************)
(* A model of the tool functions of intervals_mcp_server: one tool         *)
(* invocation at a time, the requests it hands to make_intervals_request,  *)
(* the values that helper returns, and the string (or exception) the tool  *)
(* ends with.                                                              *)
(*                                                                         *)
(* JSON values are tagged records, Python dicts keep their insertion       *)
(* order (a sequence of <<key, value>> pairs), a text is the sequence of   *)
(* the pieces an f-string concatenates, and a computation that can raise   *)
(* yields Ok(value) or Exc(kind).                                          *)
(***************************************************************************)
EXTENDS Integers, Sequences, FiniteSets, TLC

VARIABLES
    config_athlete_id,  \* config.athlete_id, the process-wide default
    pc,                 \* "idle", "await_first", "await_more", "done"
    tool,               \* the tool function being run
    args,               \* the arguments of the invocation
    athlete_id_to_use,  \* the resolved athlete id
    requests,           \* the requests handed to make_intervals_request so far
    in_flight,          \* requests handed over and not yet answered
    result,             \* what the first request returned
    more_result,        \* what the supplementary request returned
    activities,         \* get_activities: the activity list being built
    returned,           \* how the invocation ended: a string or an exception
    flaky_from_dict,    \* the tests' replacement of Activity.from_dict, or None
    schema_cls,         \* the entity class whose from_dict is called directly
    schema_data,        \* the raw dict it is handed
    schema_obj,         \* what the call produced: Ok(record) or Exc(kind)
    schema_dict,        \* what to_dict of the record returned, or None
    http_attempts,      \* make_intervals_request: the outcomes of its HTTP attempts
    request_result      \* make_intervals_request: what it returned, or Pending

schema_vars == <<schema_cls, schema_data, schema_obj, schema_dict>>

client_vars == <<http_attempts, request_result>>

tool_vars == <<config_athlete_id, pc, tool, args, athlete_id_to_use, requests,
               in_flight, result, more_result, activities, returned, flaky_from_dict>>

vars == <<config_athlete_id, pc, tool, args, athlete_id_to_use, requests,
          in_flight, result, more_result, activities, returned, flaky_from_dict,
          schema_cls, schema_data, schema_obj, schema_dict,
          http_attempts, request_result>>

------------------------------------------------------------------------------
(* Bounds of the model.                                                    *)

MaxItems == 2       \* longest list in a first response
MaxMore == 1        \* longest list in a supplementary response
MaxLimit == 2       \* largest `limit` argument
MaxEvents == 2      \* longest `events` argument of create_bulk_events
MaxNested == 3      \* longest array handed to a nested list field
MaxSet == 3         \* most keys of a write-path entity set at once
MaxSteps == 2       \* longest `steps` array of a workout document
MaxAttempts == 3    \* the HTTP attempts one make_intervals_request call may make

------------------------------------------------------------------------------
(* JSON values as Python sees them.                                        *)

None == [t |-> "null"]
JBool(b) == [t |-> "bool", b |-> b]
JInt(n) == [t |-> "int", n |-> n]
JStr(s) == [t |-> "str", s |-> s]
JDate(d) == [t |-> "date", ymd |-> d]      \* a str holding "YYYY-MM-DD"
JList(l) == [t |-> "list", l |-> l]
JDict(kv) == [t |-> "dict", kv |-> kv]     \* kv: <<key, value>> pairs in order

IsDict(v) == v.t = "dict"
IsList(v) == v.t = "list"
IsStr(v) == v.t \in {"str", "date"}

\* bool(v)
Truthy(v) ==
    CASE v.t = "null" -> FALSE
      [] v.t = "bool" -> v.b
      [] v.t = "int" -> v.n # 0
      [] v.t = "str" -> v.s # ""
      [] v.t = "date" -> TRUE
      [] v.t = "list" -> Len(v.l) > 0
      [] v.t = "dict" -> Len(v.kv) > 0
      [] OTHER -> TRUE

\* key in d
Has(d, k) == \E i \in 1..Len(d.kv) : d.kv[i][1] = k

\* d.get(k, default)
GetOr(d, k, default) ==
    IF Has(d, k)
    THEN d.kv[CHOOSE i \in 1..Len(d.kv) : d.kv[i][1] = k][2]
    ELSE default

\* d.get(k)
Get(d, k) == GetOr(d, k, None)

\* d[k] = v on a copy of d (an existing key keeps its position)
With(d, k, v) ==
    IF Has(d, k)
    THEN JDict([i \in 1..Len(d.kv) |->
                  IF d.kv[i][1] = k THEN <<k, v>> ELSE d.kv[i]])
    ELSE JDict(Append(d.kv, <<k, v>>))

Range(s) == {s[i] : i \in 1..Len(s)}
Min(S) == CHOOSE x \in S : \A y \in S : x <= y

RECURSIVE SeqsUpTo(_, _)
SeqsUpTo(S, n) ==
    IF n = 0 THEN {<<>>}
    ELSE LET shorter == SeqsUpTo(S, n - 1)
         IN shorter \cup {Append(s, x) : s \in {q \in shorter : Len(q) = n - 1}, x \in S}

------------------------------------------------------------------------------
(* Outcomes of a computation, and texts.                                   *)

Ok(v) == [ok |-> TRUE, val |-> v]
Exc(kind) == [ok |-> FALSE, exc |-> kind]

\* The exception kinds every per-item handler of the tools names:
\* except (TypeError, KeyError, ValueError)
Caught == {"TypeError", "KeyError", "ValueError"}

Lit(s) == [lit |-> s]       \* a literal piece of an f-string
Val(v) == [val |-> v]       \* an interpolated value, str(v)

Returns(text) == [kind |-> "str", text |-> text]
Raises(kind) == [kind |-> "exception", exc |-> kind]
NotReturned == [kind |-> "none"]
\* No from_dict call made yet
NotParsed == [ok |-> FALSE, exc |-> "none"]
\* make_intervals_request has not returned yet
Pending == [ok |-> FALSE, exc |-> "pending"]

------------------------------------------------------------------------------
(* Calendar dates "YYYY-MM-DD" as <<year, month, day>>.                    *)

IsLeap(y) == (y % 4 = 0 /\ y % 100 # 0) \/ y % 400 = 0

DaysInMonth(y, m) ==
    IF m = 2 THEN (IF IsLeap(y) THEN 29 ELSE 28)
    ELSE IF m \in {4, 6, 9, 11} THEN 30 ELSE 31

\* datetime.fromisoformat accepts the string
IsValidDate(d) ==
    /\ d[2] \in 1..12
    /\ d[3] \in 1..DaysInMonth(d[1], d[2])

PrevDay(d) ==
    IF d[3] > 1 THEN <<d[1], d[2], d[3] - 1>>
    ELSE IF d[2] > 1 THEN <<d[1], d[2] - 1, DaysInMonth(d[1], d[2] - 1)>>
    ELSE <<d[1] - 1, 12, 31>>

\* (date - timedelta(days=n)).strftime("%Y-%m-%d")
RECURSIVE MinusDays(_, _)
MinusDays(d, n) ==
    IF n < d[3] THEN <<d[1], d[2], d[3] - n>>
    ELSE MinusDays(PrevDay(<<d[1], d[2], 1>>), n - d[3])

\* a >= b on two "YYYY-MM-DD" strings (lexicographic)
DateStrGeq(a, b) ==
    \/ a[1] > b[1]
    \/ a[1] = b[1] /\ a[2] > b[2]
    \/ a[1] = b[1] /\ a[2] = b[2] /\ a[3] >= b[3]

------------------------------------------------------------------------------
(* utils/schemas.py and utils/types.py: the from_dict constructors.  A     *)
(* dataclass instance is Obj(class, fields); only the fields the tools and *)
(* their formatters read are kept.                                         *)

Obj(cls, fields) == [t |-> "obj", cls |-> cls, f |-> fields]

\* str(value)
PyStr(v) == IF IsStr(v) THEN v ELSE [t |-> "str_of", of |-> v]

\* _first(*values): the first value that is not None
_first(values) ==
    LET idx == {i \in 1..Len(values) : values[i] # None}
    IN IF idx = {} THEN None ELSE values[Min(idx)]

\* _safe_enum(enum_cls, value) with the ValueError answered by None
_safe_enum_or_none(members, value) ==
    IF value = None THEN None
    ELSE IF value.t = "str" /\ value.s \in members THEN value
    ELSE None

\* _safe_enum(enum_cls, value), enum_cls given by its member values
_safe_enum(members, value) ==
    IF value = None THEN None
    ELSE IF value.t = "str" /\ value.s \in members THEN value
    ELSE PyStr(value)

\* _normalize_tags(raw) without its `raw is None` branch
_normalize_tags_no_none_branch(raw) ==
    IF IsList(raw)
    THEN LET kept == SelectSeq(raw.l, LAMBDA x : x # None)
         IN [i \in 1..Len(kept) |-> PyStr(kept[i])]
    ELSE <<PyStr(raw)>>

\* _normalize_tags(raw)
_normalize_tags(raw) ==
    IF IsList(raw)
    THEN LET kept == SelectSeq(raw.l, LAMBDA x : x # None)
         IN [i \in 1..Len(kept) |-> PyStr(kept[i])]
    ELSE IF raw = None THEN <<>>
    ELSE <<PyStr(raw)>>

\* _dict_items(items) that gives up at the first item that is not a dict
_dict_items_all_or_nothing(items) ==
    CASE IsList(items) -> IF \A i \in 1..Len(items.l) : IsDict(items.l[i])
                          THEN Ok(items.l) ELSE Exc("TypeError")
      [] IsStr(items) \/ IsDict(items) -> Ok(<<>>)
      [] OTHER -> Exc("TypeError")

\* _dict_items(items): only the dict items of what iterating `items` yields.
\* A str yields its characters and a dict its keys, none of them a dict;
\* a number, a bool or None cannot be iterated.
_dict_items(items) ==
    CASE IsList(items) -> Ok(SelectSeq(items.l, IsDict))
      [] IsStr(items) \/ IsDict(items) -> Ok(<<>>)
      [] OTHER -> Exc("TypeError")

\* x or []
OrEmpty(x) == IF Truthy(x) THEN x ELSE JList(<<>>)

\* The first failure of a sequence of outcomes, else the sequence of values
AllOk(outs) ==
    LET bad == {i \in 1..Len(outs) : ~outs[i].ok}
    IN IF bad = {} THEN Ok([i \in 1..Len(outs) |-> outs[i].val])
       ELSE outs[Min(bad)]

SportType == {"Ride", "Run", "Swim", "Workout", "Other"}
MenstrualPhase == {"PERIOD", "FOLLICULAR", "OVULATING", "LUTEAL", "NONE"}
CustomItemType == {"FITNESS_CHART", "INPUT_FIELD", "ACTIVITY_FIELD", "ZONES"}
CustomItemVisibility == {"PRIVATE", "FOLLOWERS", "PUBLIC"}
AthleteStatus == {"ACTIVE", "DORMANT", "ARCHIVED"}
EventCategory == {"WORKOUT", "RACE_A", "NOTE", "SEASON_START"}
PaceUnits == {"SECS_100M", "SECS_100Y", "MINS_KM", "MINS_MILE", "SECS_500M"}
WorkoutTarget == {"AUTO", "POWER", "HR", "PACE"}
Intensity == {"active", "rest", "warmup", "cooldown", "recovery", "interval", "other"}
ValueUnits == {"%mmp", "%hr", "%lthr", "%pace", "power_zone", "hr_zone",
               "pace_zone", "w", "%ftp", "cadence"}
HrTarget == {"lap", "1s", "3s", "10s", "30s"}

\* EnumCls(value) of a plain Enum: the member, or ValueError
EnumOf(members, value) ==
    IF value.t = "str" /\ value.s \in members THEN Ok(value) ELSE Exc("ValueError")

\* `key in data` for the data a types.py from_dict is handed: a membership
\* test on a dict, a list or a str, TypeError on anything else
CanTestIn(data) == IsDict(data) \/ IsList(data) \/ IsStr(data)

\* Activity.from_dict
Activity_from_dict(data) ==
    IF flaky_from_dict # None /\ Get(data, "id") = flaky_from_dict.id
    THEN Exc(flaky_from_dict.exc)       \* raise ...("forced parse error")
    ELSE
    Ok(Obj("Activity",
        [id |-> Get(data, "id"),
         name |-> Get(data, "name"),
         type |-> _safe_enum(SportType, Get(data, "type")),
         start_date |-> _first(<<Get(data, "start_date"), Get(data, "startTime"),
                                 Get(data, "start_date_local")>>),
         distance |-> Get(data, "distance"),
         elapsed_time |-> _first(<<Get(data, "elapsed_time"), Get(data, "duration")>>),
         total_elevation_gain |-> _first(<<Get(data, "total_elevation_gain"),
                                           Get(data, "elevationGain")>>),
         average_heartrate |-> _first(<<Get(data, "average_heartrate"),
                                        Get(data, "avgHr")>>),
         icu_training_load |-> _first(<<Get(data, "icu_training_load"),
                                        Get(data, "trainingLoad")>>),
         icu_average_watts |-> _first(<<Get(data, "icu_average_watts"),
                                        Get(data, "avgPower"),
                                        Get(data, "average_watts")>>),
         tags |-> _normalize_tags(Get(data, "tags"))]))

\* ActivityMessage.from_dict
ActivityMessage_from_dict(data) ==
    Ok(Obj("ActivityMessage",
        [name |-> Get(data, "name"), created |-> Get(data, "created"),
         type |-> Get(data, "type"), content |-> Get(data, "content")]))

\* ActivityInterval.from_dict, ActivityIntervalGroup.from_dict
ActivityInterval_from_dict(data) ==
    Obj("ActivityInterval", [label |-> Get(data, "label"), type |-> Get(data, "type")])

ActivityIntervalGroup_from_dict(data) ==
    Obj("ActivityIntervalGroup", [id |-> Get(data, "id"), count |-> Get(data, "count")])

\* IntervalsData.from_dict
IntervalsData_from_dict(data) ==
    LET ints == _dict_items(OrEmpty(Get(data, "icu_intervals")))
        grps == _dict_items(OrEmpty(Get(data, "icu_groups")))
    IN IF ~ints.ok THEN ints
       ELSE IF ~grps.ok THEN grps
       ELSE Ok(Obj("IntervalsData",
               [id |-> Get(data, "id"), analyzed |-> Get(data, "analyzed"),
                icu_intervals |-> [i \in 1..Len(ints.val) |->
                                     ActivityInterval_from_dict(ints.val[i])],
                icu_groups |-> [i \in 1..Len(grps.val) |->
                                  ActivityIntervalGroup_from_dict(grps.val[i])]]))

\* WellnessSportInfo.from_dict
WellnessSportInfo_from_dict(data) ==
    Obj("WellnessSportInfo", [type |-> Get(data, "type"), eftp |-> Get(data, "eftp")])

\* WellnessEntry.from_dict
WellnessEntry_from_dict(data) ==
    LET sports == _dict_items(OrEmpty(Get(data, "sportInfo")))
    IN IF ~sports.ok THEN sports
       ELSE Ok(Obj("WellnessEntry",
               [id |-> Get(data, "id"),
                ctl |-> Get(data, "ctl"),
                sport_info |-> [i \in 1..Len(sports.val) |->
                                  WellnessSportInfo_from_dict(sports.val[i])],
                weight |-> Get(data, "weight"),
                resting_hr |-> _first(<<Get(data, "restingHR"), Get(data, "restingHr")>>),
                menstrual_phase |-> _safe_enum(MenstrualPhase, Get(data, "menstrualPhase")),
                sleep_secs |-> Get(data, "sleepSecs")]))

\* Athlete.from_dict
Athlete_from_dict(data) ==
    Ok(Obj("Athlete",
        [id |-> Get(data, "id"),
         name |-> Get(data, "name"),
         weight |-> _first(<<Get(data, "weight"), Get(data, "icu_weight")>>),
         icu_resting_hr |-> _first(<<Get(data, "icu_resting_hr"), Get(data, "restingHr"),
                                     Get(data, "resting_hr")>>),
         location |-> IF Truthy(Get(data, "location")) THEN Get(data, "location")
                      ELSE Get(data, "city"),
         timezone |-> Get(data, "timezone"),
         status |-> _safe_enum(AthleteStatus, Get(data, "status"))]))

\* _get_list(data, *keys)
_get_list(data, keys) ==
    LET idx == {i \in 1..Len(keys) : IsList(Get(data, keys[i]))}
    IN IF idx = {} THEN <<>> ELSE Get(data, keys[Min(idx)]).l

\* AthleteSportSettings.from_dict
AthleteSportSettings_from_dict(data) ==
    Ok(Obj("AthleteSportSettings",
        [type |-> _safe_enum(SportType, Get(data, "type")),
         ftp |-> Get(data, "ftp"),
         lthr |-> Get(data, "lthr"),
         max_hr |-> _first(<<Get(data, "max_hr"), Get(data, "maxHr")>>),
         power_zones |-> _get_list(data, <<"power_zones", "zones", "powerZones">>),
         hr_zones |-> _get_list(data, <<"hr_zones">>),
         pace_zones |-> _get_list(data, <<"pace_zones", "paceZones">>),
         warmup_time |-> _first(<<Get(data, "warmup_time"), Get(data, "warmup")>>),
         cooldown_time |-> _first(<<Get(data, "cooldown_time"),
                                    Get(data, "cooldown")>>)]))

\* CustomItem.from_dict
CustomItem_from_dict(data) ==
    Ok(Obj("CustomItem",
        [id |-> Get(data, "id"),
         name |-> Get(data, "name"),
         type |-> _safe_enum(CustomItemType, Get(data, "type")),
         description |-> Get(data, "description"),
         visibility |-> _safe_enum(CustomItemVisibility, Get(data, "visibility")),
         index |-> Get(data, "index"),
         hide_script |-> Get(data, "hide_script"),
         content |-> Get(data, "content")]))

\* data = {}; if <field> is not None: data[key] = <field>; ...; return data
DictOfSet(pairs) == JDict(SelectSeq(pairs, LAMBDA p : p[2] # None))

\* dataclasses.asdict(self) in the place of CustomItem.to_dict
CustomItem_to_dict_asdict(self) ==
    JDict(<<<<"id", self.f.id>>, <<"name", self.f.name>>, <<"type", self.f.type>>,
            <<"description", self.f.description>>,
            <<"visibility", self.f.visibility>>, <<"index", self.f.index>>,
            <<"hide_script", self.f.hide_script>>, <<"content", self.f.content>>>>)

\* CustomItem.to_dict
CustomItem_to_dict(self) ==
    DictOfSet(<<<<"name", self.f.name>>, <<"type", self.f.type>>,
                <<"description", self.f.description>>,
                <<"visibility", self.f.visibility>>,
                <<"content", self.f.content>>>>)

\* out, and on success what build makes of its value
Then(out, build(_)) == IF out.ok THEN build(out.val) ELSE out

\* Value.from_dict (utils/types.py)
Value_from_dict(data) ==
    IF ~CanTestIn(data) THEN Exc("TypeError")
    ELSE IF ~IsDict(data)
         THEN Ok(Obj("Value", [value |-> None, units |-> None, target |-> None]))
    ELSE Then(AllOk(<<IF Has(data, "units") THEN EnumOf(ValueUnits, Get(data, "units"))
                      ELSE Ok(None),
                      IF Has(data, "target") THEN EnumOf(HrTarget, Get(data, "target"))
                      ELSE Ok(None)>>),
              LAMBDA p : Ok(Obj("Value", [value |-> Get(data, "value"),
                                          units |-> p[1], target |-> p[2]])))

\* [f(x) for x in value]: TypeError when value cannot be iterated; a str
\* yields its characters and a dict its keys
IterItems(value) ==
    CASE IsList(value) -> Ok(value.l)
      [] IsStr(value) \/ IsDict(value) -> Ok(<<>>)
      [] OTHER -> Exc("TypeError")

\* Step.from_dict (utils/types.py); nested steps are followed to the depth
\* the responses of the model hold
RECURSIVE Step_from_dict(_)
Step_from_dict(data) ==
    IF ~CanTestIn(data) THEN Exc("TypeError")
    ELSE IF ~IsDict(data)
         THEN Ok(Obj("Step", [duration |-> None, intensity |-> None, steps |-> None,
                              power |-> None]))
    ELSE Then(AllOk(<<IF Has(data, "intensity")
                      THEN EnumOf(Intensity, Get(data, "intensity")) ELSE Ok(None),
                      IF Has(data, "steps")
                      THEN Then(IterItems(Get(data, "steps")),
                                LAMBDA raw : AllOk([i \in 1..Len(raw) |->
                                                      Step_from_dict(raw[i])]))
                      ELSE Ok(None),
                      IF Has(data, "power") THEN Value_from_dict(Get(data, "power"))
                      ELSE Ok(None)>>),
              LAMBDA p : Ok(Obj("Step", [duration |-> Get(data, "duration"),
                                         intensity |-> p[1],
                                         steps |-> IF Has(data, "steps")
                                                   THEN JList(p[2]) ELSE None,
                                         power |-> p[3]])))

\* SportSettings.from_dict(_data): cls(), an instance without fields
SportSettings == [t |-> "obj", cls |-> "SportSettings"]

\* WorkoutDoc.from_dict (utils/types.py), handed a dict
WorkoutDoc_from_dict(data) ==
    Then(AllOk(<<IF Has(data, "pace_units")
                 THEN EnumOf(PaceUnits, Get(data, "pace_units")) ELSE Ok(None),
                 IF Has(data, "target")
                 THEN EnumOf(WorkoutTarget, Get(data, "target")) ELSE Ok(None),
                 IF Has(data, "steps")
                 THEN Then(IterItems(Get(data, "steps")),
                           LAMBDA raw : AllOk([i \in 1..Len(raw) |->
                                                 Step_from_dict(raw[i])]))
                 ELSE Ok(None)>>),
         LAMBDA p : Ok(Obj("WorkoutDoc",
                           [description |-> Get(data, "description"),
                            duration |-> Get(data, "duration"),
                            pace_units |-> p[1],
                            sport_settings |-> IF Has(data, "sportSettings")
                                               THEN SportSettings ELSE None,
                            target |-> p[2],
                            steps |-> IF Has(data, "steps") THEN JList(p[3])
                                      ELSE None])))

\* raw_doc = _first(data.get("workout_doc"), data.get("workoutDoc")) and the
\* WorkoutDoc made of it when it is a dict
WorkoutDocOf(raw_doc) ==
    IF IsDict(raw_doc) THEN WorkoutDoc_from_dict(raw_doc) ELSE Ok(None)

\* Workout.from_dict
Workout_from_dict(data) ==
    Then(WorkoutDocOf(_first(<<Get(data, "workout_doc"), Get(data, "workoutDoc")>>)),
         LAMBDA doc : Ok(Obj("Workout",
               [id |-> Get(data, "id"),
                athlete_id |-> Get(data, "athlete_id"),
                name |-> Get(data, "name"),
                description |-> Get(data, "description"),
                type |-> _safe_enum(SportType, Get(data, "type")),
                folder_id |-> _first(<<Get(data, "folder_id"), Get(data, "folderId")>>),
                tags |-> _normalize_tags(Get(data, "tags")),
                indoor |-> Get(data, "indoor"),
                distance |-> Get(data, "distance"),
                color |-> Get(data, "color"),
                target |-> Get(data, "target"),
                moving_time |-> _first(<<Get(data, "moving_time"), Get(data, "duration")>>),
                icu_training_load |-> _first(<<Get(data, "icu_training_load"),
                                               Get(data, "tss")>>),
                workout_doc |-> doc])))

\* Value.to_dict (utils/types.py)
Value_to_dict(self) ==
    DictOfSet(<<<<"value", self.f.value>>, <<"units", self.f.units>>,
                <<"target", self.f.target>>>>)

\* Step.to_dict (utils/types.py)
RECURSIVE Step_to_dict(_)
Step_to_dict(self) ==
    DictOfSet(<<<<"duration", self.f.duration>>,
                <<"intensity", self.f.intensity>>,
                <<"steps", IF self.f.steps = None THEN None
                           ELSE JList([i \in 1..Len(self.f.steps.l) |->
                                         Step_to_dict(self.f.steps.l[i])])>>,
                <<"power", IF self.f.power = None THEN None
                           ELSE Value_to_dict(self.f.power)>>>>)

\* WorkoutDoc.to_dict writing every field under its attribute name
WorkoutDoc_to_dict_attribute_names(self) ==
    DictOfSet(<<<<"description", self.f.description>>,
                <<"duration", self.f.duration>>,
                <<"pace_units", self.f.pace_units>>,
                <<"sport_settings", IF self.f.sport_settings = None THEN None
                                    ELSE JDict(<<>>)>>,
                <<"target", self.f.target>>,
                <<"steps", IF self.f.steps = None THEN None
                           ELSE JList([i \in 1..Len(self.f.steps.l) |->
                                         Step_to_dict(self.f.steps.l[i])])>>>>)

\* WorkoutDoc.to_dict (utils/types.py)
WorkoutDoc_to_dict(self) ==
    DictOfSet(<<<<"description", self.f.description>>,
                <<"duration", self.f.duration>>,
                <<"pace_units", self.f.pace_units>>,
                <<"sportSettings", IF self.f.sport_settings = None THEN None
                                   ELSE JDict(<<>>)>>,
                <<"target", self.f.target>>,
                <<"steps", IF self.f.steps = None THEN None
                           ELSE JList([i \in 1..Len(self.f.steps.l) |->
                                         Step_to_dict(self.f.steps.l[i])])>>>>)

\* Workout.to_dict
Workout_to_dict(self) ==
    DictOfSet(<<<<"name", self.f.name>>,
                <<"description", self.f.description>>,
                <<"type", self.f.type>>,
                <<"folder_id", self.f.folder_id>>,
                <<"tags", IF Len(self.f.tags) > 0 THEN JList(self.f.tags) ELSE None>>,
                <<"indoor", self.f.indoor>>,
                <<"distance", self.f.distance>>,
                <<"color", self.f.color>>,
                <<"moving_time", self.f.moving_time>>,
                <<"icu_training_load", self.f.icu_training_load>>,
                <<"target", self.f.target>>,
                <<"workout_doc", IF self.f.workout_doc = None THEN None
                                 ELSE WorkoutDoc_to_dict(self.f.workout_doc)>>>>)

\* Folder.from_dict
Folder_from_dict(data) ==
    Then(Then(_dict_items(IF Truthy(Get(data, "workouts")) THEN Get(data, "workouts")
                          ELSE OrEmpty(Get(data, "children"))),
              LAMBDA items : AllOk([i \in 1..Len(items) |-> Workout_from_dict(items[i])])),
         LAMBDA workouts : Ok(Obj("Folder",
               [id |-> Get(data, "id"), name |-> Get(data, "name"),
                type |-> Get(data, "type"), workouts |-> workouts])))

\* EventWorkout.from_dict
EventWorkout_from_dict(data) ==
    LET intervals == _dict_items(OrEmpty(Get(data, "intervals")))
    IN IF ~intervals.ok THEN intervals
       ELSE Ok(Obj("EventWorkout",
               [id |-> Get(data, "id"),
                moving_time |-> _first(<<Get(data, "moving_time"), Get(data, "duration")>>),
                icu_training_load |-> _first(<<Get(data, "icu_training_load"),
                                               Get(data, "tss")>>),
                intervals |-> intervals.val]))

\* EventResponse.from_dict
EventResponse_from_dict(data) ==
    LET workout_data == Get(data, "workout")
        workout == IF IsDict(workout_data) THEN EventWorkout_from_dict(workout_data)
                   ELSE Ok(None)
    IN IF ~workout.ok THEN workout
       ELSE Ok(Obj("EventResponse",
               [id |-> Get(data, "id"),
                start_date_local |-> _first(<<Get(data, "start_date_local"),
                                              Get(data, "date")>>),
                name |-> Get(data, "name"),
                description |-> Get(data, "description"),
                type |-> _safe_enum(SportType, Get(data, "type")),
                category |-> _safe_enum(EventCategory, Get(data, "category")),
                workout |-> workout.val]))

\* EventRequest(**kwargs): start_date_local and name are required, category
\* and type have defaults, the rest default to None
EventRequest_init(kwargs) ==
    IF ~Has(kwargs, "start_date_local") \/ ~Has(kwargs, "name") THEN Exc("TypeError")
    ELSE Ok(Obj("EventRequest",
            [start_date_local |-> Get(kwargs, "start_date_local"),
             name |-> Get(kwargs, "name"),
             category |-> GetOr(kwargs, "category", JStr("WORKOUT")),
             type |-> GetOr(kwargs, "type", JStr("Ride")),
             description |-> Get(kwargs, "description"),
             moving_time |-> Get(kwargs, "moving_time"),
             distance |-> Get(kwargs, "distance")]))

\* EventRequest.to_dict
EventRequest_to_dict(self) ==
    JDict(<<<<"start_date_local", self.f.start_date_local>>,
            <<"category", self.f.category>>,
            <<"name", self.f.name>>,
            <<"type", self.f.type>>>>
          \o DictOfSet(<<<<"description", self.f.description>>,
                         <<"moving_time", self.f.moving_time>>,
                         <<"distance", self.f.distance>>>>).kv)

\* AthleteTrainingPlan.from_dict: the class is imported by tools/athlete.py
\* and is not part of utils/schemas.py as given
AthleteTrainingPlan_from_dict(data) ==
    Ok(Obj("AthleteTrainingPlan", [id |-> Get(data, "id"), name |-> Get(data, "name")]))

------------------------------------------------------------------------------
(* utils/formatting.py.  Every formatter reads its argument with           *)
(* argument.get(key, default), the dict interface: handed a dataclass      *)
(* instance, which has no attribute `get`, it raises AttributeError.       *)

\* format_activity_summary(activity)
format_activity_summary(activity) ==
    IF ~IsDict(activity) THEN Exc("AttributeError")
    ELSE Ok(<<Lit("Activity: "), Val(GetOr(activity, "name", JStr("Unnamed"))),
              Lit("ID: "), Val(GetOr(activity, "id", JStr("N/A")))>>)

\* format_search_result(result)
format_search_result(res) ==
    IF ~IsDict(res) THEN Exc("AttributeError")
    ELSE Ok(<<Lit("ID: "), Val(GetOr(res, "id", JStr("N/A"))), Lit(" | "),
              Val(GetOr(res, "name", JStr("Unnamed")))>>)

\* format_workout(workout)
format_workout(workout) ==
    IF ~IsDict(workout) THEN Exc("AttributeError")
    ELSE Ok(<<Lit("Workout: "), Val(GetOr(workout, "name", JStr("Unnamed"))),
              Lit("ID: "), Val(GetOr(workout, "id", JStr("N/A")))>>)

\* format_folder_summary(folder)
format_folder_summary(folder) ==
    IF ~IsDict(folder) THEN Exc("AttributeError")
    ELSE Ok(<<Lit("Folder: "), Val(GetOr(folder, "name", JStr("N/A"))),
              Lit("ID: "), Val(GetOr(folder, "id", JStr("N/A")))>>)

\* format_wellness_entry(entries)
format_wellness_entry(entries) ==
    IF ~IsDict(entries) THEN Exc("AttributeError")
    ELSE Ok(<<Lit("Wellness Data:"), Lit("Date: "),
              Val(GetOr(entries, "id", JStr("N/A")))>>)

\* format_athlete_summary(athlete)
format_athlete_summary(athlete) ==
    IF ~IsDict(athlete) THEN Exc("AttributeError")
    ELSE Ok(<<Lit("Athlete: "), Val(GetOr(athlete, "name", JStr("N/A"))),
              Lit("ID: "), Val(GetOr(athlete, "id", JStr("N/A")))>>)

\* format_sport_settings(setting)
format_sport_settings(setting) ==
    IF ~IsDict(setting) THEN Exc("AttributeError")
    ELSE Ok(<<Lit("Sport: "), Val(GetOr(setting, "type", JStr("N/A"))),
              Lit("FTP: "), Val(GetOr(setting, "ftp", JStr("N/A")))>>)

\* format_activity_message(message)
format_activity_message(message) ==
    IF ~IsDict(message) THEN Exc("AttributeError")
    ELSE Ok(<<Lit("Author: "), Val(GetOr(message, "name", JStr("Unknown"))),
              Lit("Content: "), Val(GetOr(message, "content", JStr("")))>>)

\* format_custom_item_details(item)
format_custom_item_details(item) ==
    IF ~IsDict(item) THEN Exc("AttributeError")
    ELSE Ok(<<Lit("Custom Item Details:"), Lit("ID: "),
              Val(GetOr(item, "id", JStr("N/A"))),
              Lit("Name: "), Val(GetOr(item, "name", JStr("N/A")))>>)

\* format_intervals(intervals_data)
format_intervals(intervals_data) ==
    IF ~IsDict(intervals_data) THEN Exc("AttributeError")
    ELSE Ok(<<Lit("Intervals Analysis:"), Lit("ID: "),
              Val(GetOr(intervals_data, "id", JStr("N/A")))>>)

\* format_season_summary and format_training_plan are imported by
\* tools/seasons.py and tools/athlete.py and are not part of
\* utils/formatting.py as given: they are taken to render the record handed
\* to them.
format_season_summary(event) ==
    Ok(<<Lit("Season: "), Val(event.f.name), Lit("ID: "), Val(event.f.id)>>)

format_training_plan(plan) ==
    Ok(<<Lit("Training Plan: "), Val(plan.f.name)>>)

\* format_x(X.from_dict(data)): the constructor, then the formatter
ParseThenFormat(parsed, formatter(_)) ==
    IF parsed.ok THEN formatter(parsed.val) ELSE parsed

------------------------------------------------------------------------------
(* What lies outside the files given: utils/validation.py, utils/dates.py  *)
(* and config.py.                                                          *)

\* resolve_athlete_id(athlete_id, config.athlete_id): the caller's id, else
\* the process-wide default, else an error string
resolve_athlete_id(athlete_id, default) ==
    LET use == IF Truthy(athlete_id) THEN athlete_id ELSE default
    IN IF Truthy(use)
       THEN [athlete_id |-> use, error_msg |-> None]
       ELSE [athlete_id |-> JStr(""),
             error_msg |-> <<Lit("Error"), Lit(": No athlete ID provided and no default ATHLETE_ID found.")>>]

\* The day the tools run on
Today == <<2024, 3, 15>>

\* resolve_date_params(start_date, end_date): 30 days ago and today by default
resolve_date_params(start_date, end_date) ==
    [start_date |-> IF Truthy(start_date) THEN start_date ELSE JDate(MinusDays(Today, 30)),
     end_date |-> IF Truthy(end_date) THEN end_date ELSE JDate(Today)]

\* get_default_start_date(days_ago=365), get_default_future_end_date(days_ahead=365)
SeasonDefaultStart == JDate(<<Today[1] - 1, Today[2], Today[3]>>)
SeasonDefaultEnd == JDate(<<Today[1] + 1, Today[2], Today[3]>>)

------------------------------------------------------------------------------
(* How a step of a tool ends: with a string, with an exception, or by      *)
(* awaiting make_intervals_request.                                        *)

Awaits(req) == [kind |-> "request", req |-> req]

Request(endpoint, id, method) ==
    [endpoint |-> endpoint, id |-> id, method |-> method]

\* "".join over the texts of a sequence
RECURSIVE Concat(_)
Concat(texts) == IF texts = <<>> THEN <<>> ELSE Head(texts) \o Concat(Tail(texts))

\* The arguments a caller did not give
NoArgs ==
    [athlete_id |-> None, activity_id |-> JStr("a1"), item_id |-> JInt(7),
     event_id |-> JStr("e1"), limit |-> 0, include_unnamed |-> FALSE,
     start_date |-> None, end_date |-> None, sport_type |-> None,
     workouts |-> None, content |-> None, name |-> None, item_type |-> None,
     q |-> None, events |-> None, description |-> None, visibility |-> None,
     color |-> None]

------------------------------------------------------------------------------
(* tools/activities.py                                                     *)

\* _parse_activities_from_result(result)
_parse_activities_from_result(res) ==
    IF IsList(res) THEN SelectSeq(res.l, IsDict)
    ELSE IF IsDict(res)
    THEN LET lists == {i \in 1..Len(res.kv) : IsList(res.kv[i][2])}
             found == IF lists = {} THEN <<>>
                      ELSE SelectSeq(res.kv[Min(lists)][2].l, IsDict)
         IN IF found = <<>> /\ (Has(res, "name") \/ Has(res, "startTime")
                                \/ Has(res, "distance"))
            THEN <<res>>
            ELSE found
    ELSE <<>>

\* activity.get("name") and activity.get("name") != "Unnamed"
IsNamed(activity) ==
    Truthy(Get(activity, "name")) /\ Get(activity, "name") # JStr("Unnamed")

\* _filter_named_activities(activities): activity.get on an item that is
\* not a dict raises AttributeError
_filter_named_activities(acts) ==
    IF \E i \in 1..Len(acts) : ~IsDict(acts[i])
    THEN Exc("AttributeError")
    ELSE Ok(SelectSeq(acts, IsNamed))

\* The days _fetch_more_activities reaches back
BackfillDays == 60

\* _fetch_more_activities with older_end_date = start_date (the day is not
\* taken off)
_fetch_more_activities_request_to_start(athlete_id, start_date, api_limit) ==
    IF ~(start_date.t = "date" /\ IsValidDate(start_date.ymd))
    THEN Exc("ValueError")
    ELSE Ok([endpoint |-> "/athlete/{athlete_id}/activities",
             id |-> athlete_id, method |-> "GET",
             params |-> [oldest |-> JDate(MinusDays(start_date.ymd, BackfillDays)),
                         newest |-> start_date,
                         limit |-> api_limit]])

\* _fetch_more_activities up to its request: Ok(None) stands for the early
\* `return []`
_fetch_more_activities_request(athlete_id, start_date, api_limit) ==
    IF ~(start_date.t = "date" /\ IsValidDate(start_date.ymd))
    THEN Exc("ValueError")
    ELSE LET older_start_date == MinusDays(start_date.ymd, BackfillDays)
             older_end_date == MinusDays(start_date.ymd, 1)
         IN IF DateStrGeq(older_start_date, older_end_date)
            THEN Ok(None)
            ELSE Ok([endpoint |-> "/athlete/{athlete_id}/activities",
                     id |-> athlete_id, method |-> "GET",
                     params |-> [oldest |-> JDate(older_start_date),
                                 newest |-> JDate(older_end_date),
                                 limit |-> api_limit]])

\* _fetch_more_activities from its response on
_fetch_more_activities_result(more) ==
    IF IsList(more) THEN _filter_named_activities(more.l) ELSE Ok(<<>>)

\* One round of the loop of _format_activities_response
FormatActivityEntry(activity) ==
    LET out == ParseThenFormat(Activity_from_dict(activity), format_activity_summary)
    IN IF out.ok THEN out
       ELSE IF out.exc \in Caught
       THEN Ok(<<Lit("[Activity "), Val(GetOr(activity, "id", JStr("unknown"))),
                 Lit(": failed to format]")>>)
       ELSE out

\* _format_activities_response(activities, athlete_id, include_unnamed)
_format_activities_response(acts, athlete_id, include_unnamed) ==
    IF acts = <<>>
    THEN IF include_unnamed
         THEN Returns(<<Lit("No valid activities found for athlete "), Val(athlete_id),
                        Lit(" in the specified date range.")>>)
         ELSE Returns(<<Lit("No named activities found for athlete "), Val(athlete_id),
                        Lit(" in the specified date range. Try with include_unnamed=True to see all activities.")>>)
    ELSE LET entries == AllOk([i \in 1..Len(acts) |->
                                 IF IsDict(acts[i]) THEN FormatActivityEntry(acts[i])
                                 ELSE Ok(<<Lit("Invalid activity format: "), Val(acts[i])>>)])
         IN IF entries.ok
            THEN Returns(<<Lit("Activities:")>> \o Concat(entries.val))
            ELSE Raises(entries.exc)

\* activities[:limit], limit >= 0
Truncate(acts, limit) ==
    SubSeq(acts, 1, IF limit < Len(acts) THEN limit ELSE Len(acts))

\* limit * 3 if not include_unnamed else limit
ApiLimit(a) == IF ~a.include_unnamed THEN a.limit * 3 ELSE a.limit

\* get_activities without `if error_msg: return error_msg`
get_activities_start_unresolved(a, default) ==
    LET r == resolve_athlete_id(a.athlete_id, default)
        d == resolve_date_params(a.start_date, a.end_date)
    IN Awaits([endpoint |-> "/athlete/{athlete_id}/activities",
               id |-> r.athlete_id, method |-> "GET",
               params |-> [oldest |-> d.start_date, newest |-> d.end_date,
                           limit |-> ApiLimit(a)]])

\* get_activities up to its first request
get_activities_start(a, default) ==
    LET r == resolve_athlete_id(a.athlete_id, default)
        d == resolve_date_params(a.start_date, a.end_date)
    IN IF r.error_msg # None THEN Returns(r.error_msg)
       ELSE Awaits([endpoint |-> "/athlete/{athlete_id}/activities",
                    id |-> r.athlete_id, method |-> "GET",
                    params |-> [oldest |-> d.start_date, newest |-> d.end_date,
                                limit |-> ApiLimit(a)]])

\* len(activities) <= limit in place of len(activities) < limit
NeedsMore_le(named, limit) == Len(named) <= limit

\* The condition under which get_activities fetches more
NeedsMore(named, limit) == Len(named) < limit

\* get_activities from its first response to its return or its second request
get_activities_first(a, athlete_id, res) ==
    IF IsDict(res) /\ Has(res, "error")
    THEN Returns(<<Lit("Error"), Lit(" fetching activities: "),
                   Val(GetOr(res, "message", JStr("Unknown error")))>>)
    ELSE IF ~Truthy(res)
    THEN Returns(<<Lit("No activities found for athlete "), Val(athlete_id),
                   Lit(" in the specified date range.")>>)
    ELSE LET parsed == _parse_activities_from_result(res)
             d == resolve_date_params(a.start_date, a.end_date)
         IN IF parsed = <<>>
            THEN Returns(<<Lit("No valid activities found for athlete "), Val(athlete_id),
                           Lit(" in the specified date range.")>>)
            ELSE IF a.include_unnamed
            THEN _format_activities_response(Truncate(parsed, a.limit), athlete_id, TRUE)
            ELSE LET named == _filter_named_activities(parsed).val
                 IN IF ~NeedsMore(named, a.limit)
                    THEN _format_activities_response(Truncate(named, a.limit),
                                                     athlete_id, FALSE)
                    ELSE LET more == _fetch_more_activities_request(
                                         athlete_id, d.start_date, ApiLimit(a))
                         IN IF ~more.ok THEN Raises(more.exc)
                            ELSE IF more.val = None
                            THEN _format_activities_response(Truncate(named, a.limit),
                                                             athlete_id, FALSE)
                            ELSE [kind |-> "request", req |-> more.val,
                                  activities |-> named]

\* get_activities from the response to its second request on
get_activities_more(a, athlete_id, named, more) ==
    LET extra == _fetch_more_activities_result(more)
    IN IF ~extra.ok THEN Raises(extra.exc)
       ELSE _format_activities_response(Truncate(named \o extra.val, a.limit),
                                        athlete_id, FALSE)

\* An await of make_intervals_request on /activity/{activity_id}...
ActivityRequest(path, a, method) ==
    Awaits([endpoint |-> path, id |-> a.activity_id, method |-> method])

\* for zone in zones.get(key, []): f"Zone {zone.get('number')}: ..."
ZoneLines(zones, key) ==
    IF ~IsDict(zones) THEN Exc("AttributeError")
    ELSE LET zs == IterItems(GetOr(zones, key, JList(<<>>)))
         IN IF ~zs.ok THEN zs
            ELSE IF ~IsList(GetOr(zones, key, JList(<<>>)))
                    /\ Truthy(GetOr(zones, key, JList(<<>>)))
            THEN Exc("AttributeError")      \* the characters or keys are str
            ELSE IF \E i \in 1..Len(zs.val) : ~IsDict(zs.val[i])
            THEN Exc("AttributeError")
            ELSE Ok(Concat([i \in 1..Len(zs.val) |->
                      <<Lit("Zone "), Val(Get(zs.val[i], "number")), Lit(": "),
                        Val(Get(zs.val[i], "secondsInZone")), Lit(" seconds")>>]))

get_activity_details_start(a, default) == ActivityRequest("/activity/{activity_id}", a, "GET")

\* get_activity_details from its response on
get_activity_details_first(a, athlete_id, res) ==
    IF IsDict(res) /\ Has(res, "error")
    THEN Returns(<<Lit("Error"), Lit(" fetching activity details: "),
                   Val(GetOr(res, "message", JStr("Unknown error")))>>)
    ELSE IF ~Truthy(res)
    THEN Returns(<<Lit("No details found for activity "), Val(a.activity_id)>>)
    ELSE LET activity_data == IF IsList(res) THEN res.l[1] ELSE res
         IN IF ~IsDict(activity_data)
            THEN Returns(<<Lit("Invalid activity format for activity "), Val(a.activity_id)>>)
            ELSE LET detailed_view == ParseThenFormat(Activity_from_dict(activity_data),
                                                      format_activity_summary)
                     power == ZoneLines(Get(activity_data, "zones"), "power")
                     hr == ZoneLines(Get(activity_data, "zones"), "hr")
                 IN IF ~detailed_view.ok
                    THEN IF detailed_view.exc \in Caught
                         THEN Returns(<<Lit("Error"), Lit(": Failed to parse activity data for "),
                                        Val(a.activity_id)>>)
                         ELSE Raises(detailed_view.exc)
                    ELSE IF ~Has(activity_data, "zones") THEN Returns(detailed_view.val)
                    ELSE IF ~power.ok THEN Raises(power.exc)
                    ELSE IF ~hr.ok THEN Raises(hr.exc)
                    ELSE Returns(detailed_view.val \o <<Lit("Power Zones:")>> \o power.val
                                 \o <<Lit("Heart Rate Zones:")>> \o hr.val)

get_activity_intervals_start(a, default) ==
    ActivityRequest("/activity/{activity_id}/intervals", a, "GET")

\* get_activity_intervals from its response on
get_activity_intervals_first(a, athlete_id, res) ==
    IF IsDict(res) /\ Has(res, "error")
    THEN Returns(<<Lit("Error"), Lit(" fetching intervals: "),
                   Val(GetOr(res, "message", JStr("Unknown error")))>>)
    ELSE IF ~Truthy(res)
    THEN Returns(<<Lit("No interval data found for activity "), Val(a.activity_id)>>)
    ELSE IF ~IsDict(res) \/ ~(Has(res, "icu_intervals") \/ Has(res, "icu_groups"))
    THEN Returns(<<Lit("No interval data or unrecognized format for activity "),
                   Val(a.activity_id)>>)
    ELSE LET out == ParseThenFormat(IntervalsData_from_dict(res), format_intervals)
         IN IF out.ok THEN Returns(out.val)
            ELSE IF out.exc \in Caught
            THEN Returns(<<Lit("Error"), Lit(": Failed to parse interval data for activity "),
                           Val(a.activity_id)>>)
            ELSE Raises(out.exc)

get_activity_streams_start(a, default) ==
    ActivityRequest("/activity/{activity_id}/streams", a, "GET")

\* len(data) for the values JSON can hold
HasLen(data) == data.t \in {"list", "dict", "str", "date"}

\* One stream of get_activity_streams
StreamLines(stream) ==
    LET stream_type == GetOr(stream, "type", JStr("unknown"))
        data == GetOr(stream, "data", JList(<<>>))
    IN IF ~HasLen(data) THEN Exc("TypeError")
       ELSE Ok(<<Lit("Stream: "), Val(GetOr(stream, "name", stream_type)),
                 Val(stream_type), Lit("  Value Type: "),
                 Val(GetOr(stream, "valueType", JStr(""))),
                 Lit("  Data Points: "), Val(data)>>)

\* get_activity_streams from its response on
get_activity_streams_first(a, athlete_id, res) ==
    IF IsDict(res) /\ Has(res, "error")
    THEN Returns(<<Lit("Error"), Lit(" fetching activity streams: "),
                   Val(GetOr(res, "message", JStr("Unknown error")))>>)
    ELSE IF ~Truthy(res) \/ ~IsList(res)
    THEN Returns(<<Lit("No stream data found for activity "), Val(a.activity_id)>>)
    ELSE LET streams == SelectSeq(res.l, IsDict)
             lines == AllOk([i \in 1..Len(streams) |-> StreamLines(streams[i])])
         IN IF lines.ok
            THEN Returns(<<Lit("Activity Streams for "), Val(a.activity_id)>>
                         \o Concat(lines.val))
            ELSE Raises(lines.exc)

get_activity_messages_start(a, default) ==
    ActivityRequest("/activity/{activity_id}/messages", a, "GET")

\* One message of get_activity_messages
FormatMessageEntry(msg) ==
    LET out == ParseThenFormat(ActivityMessage_from_dict(msg), format_activity_message)
    IN IF out.ok THEN out
       ELSE IF out.exc \in Caught THEN Ok(<<Lit("[Message could not be displayed]")>>)
       ELSE out

\* get_activity_messages from its response on
get_activity_messages_first(a, athlete_id, res) ==
    IF IsDict(res) /\ Has(res, "error")
    THEN Returns(<<Lit("Error"), Lit(" fetching activity messages: "),
                   Val(GetOr(res, "message", JStr("Unknown error")))>>)
    ELSE IF ~Truthy(res) \/ ~IsList(res)
    THEN Returns(<<Lit("No messages found for activity "), Val(a.activity_id)>>)
    ELSE LET messages == SelectSeq(res.l, IsDict)
             entries == AllOk([i \in 1..Len(messages) |-> FormatMessageEntry(messages[i])])
         IN IF ~entries.ok THEN Raises(entries.exc)
            ELSE Returns(<<Lit("Messages for activity "), Val(a.activity_id)>>
                         \o Concat(entries.val)
                         \o IF messages = <<>>
                            THEN <<Lit("[No messages could be displayed]")>> ELSE <<>>)

\* add_activity_message up to its request
add_activity_message_start(a, default) ==
    Awaits([endpoint |-> "/activity/{activity_id}/messages", id |-> a.activity_id,
            method |-> "POST", data |-> JDict(<<<<"content", a.content>>>>)])

\* add_activity_message that looks for the key `id` and not for its value
add_activity_message_first_has_id(a, athlete_id, res) ==
    IF IsDict(res) /\ Has(res, "error")
    THEN Returns(<<Lit("Error"), Lit(" adding message to activity: "),
                   Val(GetOr(res, "message", JStr("Unknown error")))>>)
    ELSE IF ~Truthy(res) \/ ~IsDict(res)
    THEN Returns(<<Lit("Error"), Lit(": Unexpected response when adding message.")>>)
    ELSE IF Has(res, "id")
    THEN Returns(<<Lit("Successfully added message (ID: "), Val(Get(res, "id")),
                   Lit(") to activity "), Val(a.activity_id)>>)
    ELSE Returns(<<Lit("Message appears to have been added to activity "),
                   Val(a.activity_id),
                   Lit(", but no ID was returned. Please verify manually.")>>)

\* add_activity_message from its response on
add_activity_message_first(a, athlete_id, res) ==
    IF IsDict(res) /\ Has(res, "error")
    THEN Returns(<<Lit("Error"), Lit(" adding message to activity: "),
                   Val(GetOr(res, "message", JStr("Unknown error")))>>)
    ELSE IF ~Truthy(res) \/ ~IsDict(res)
    THEN Returns(<<Lit("Error"), Lit(": Unexpected response when adding message.")>>)
    ELSE IF Get(res, "id") # None
    THEN Returns(<<Lit("Successfully added message (ID: "), Val(Get(res, "id")),
                   Lit(") to activity "), Val(a.activity_id)>>)
    ELSE Returns(<<Lit("Message appears to have been added to activity "),
                   Val(a.activity_id),
                   Lit(", but no ID was returned. Please verify manually.")>>)

------------------------------------------------------------------------------
(* tools/wellness.py                                                       *)

get_wellness_data_start(a, default) ==
    LET r == resolve_athlete_id(a.athlete_id, default)
        d == resolve_date_params(a.start_date, a.end_date)
    IN IF r.error_msg # None THEN Returns(r.error_msg)
       ELSE Awaits([endpoint |-> "/athlete/{athlete_id}/wellness", id |-> r.athlete_id,
                    method |-> "GET",
                    params |-> [oldest |-> d.start_date, newest |-> d.end_date]])

\* One entry of get_wellness_data: `label` is what the placeholder names
FormatWellnessEntry(entry_data, label) ==
    LET out == ParseThenFormat(WellnessEntry_from_dict(entry_data), format_wellness_entry)
    IN IF out.ok THEN out
       ELSE IF out.exc \in Caught
       THEN Ok(<<Lit("[Wellness data for "), Val(label), Lit(": failed to format]")>>)
       ELSE out

\* The object-valued entries of a wellness response, as <<entry_data, label>>
WellnessEntries(res) ==
    IF IsDict(res)
    THEN LET objs == SelectSeq(res.kv, LAMBDA p : IsDict(p[2]))
         IN [i \in 1..Len(objs) |->
               <<IF Has(objs[i][2], "id") THEN objs[i][2]
                 ELSE With(objs[i][2], "id", JStr(objs[i][1])),
                 JStr(objs[i][1])>>]
    ELSE IF IsList(res)
    THEN LET objs == SelectSeq(res.l, IsDict)
         IN [i \in 1..Len(objs) |-> <<objs[i], GetOr(objs[i], "id", JStr("unknown"))>>]
    ELSE <<>>

\* get_wellness_data from its response on
get_wellness_data_first(a, athlete_id, res) ==
    IF IsDict(res) /\ Has(res, "error")
    THEN Returns(<<Lit("Error"), Lit(" fetching wellness data: "), Val(Get(res, "message"))>>)
    ELSE IF ~Truthy(res)
    THEN Returns(<<Lit("No wellness data found for athlete "), Val(athlete_id),
                   Lit(" in the specified date range.")>>)
    ELSE LET es == WellnessEntries(res)
             blocks == AllOk([i \in 1..Len(es) |-> FormatWellnessEntry(es[i][1], es[i][2])])
         IN IF ~blocks.ok THEN Raises(blocks.exc)
            ELSE Returns(<<Lit("Wellness Data:")>> \o Concat(blocks.val)
                         \o IF es = <<>> THEN <<Lit("[No wellness data found]")>> ELSE <<>>)

------------------------------------------------------------------------------
(* tools/workouts.py                                                       *)

list_workouts_start(a, default) ==
    LET r == resolve_athlete_id(a.athlete_id, default)
    IN IF r.error_msg # None THEN Returns(r.error_msg)
       ELSE Awaits(Request("/athlete/{athlete_id}/workouts", r.athlete_id, "GET"))

\* The loop of list_workouts and list_folders: an item that fails with a
\* caught exception is logged and left out
FormatOrSkip(items, from_dict(_), formatter(_)) ==
    LET outs == [i \in 1..Len(items) |-> ParseThenFormat(from_dict(items[i]), formatter)]
        kept == {i \in 1..Len(items) : outs[i].ok \/ outs[i].exc \notin Caught}
        keptSeq == SelectSeq([i \in 1..Len(items) |-> [i |-> i, out |-> outs[i]]],
                             LAMBDA e : e.i \in kept)
    IN AllOk([j \in 1..Len(keptSeq) |-> keptSeq[j].out])

\* list_workouts asking once more when the library comes back empty
list_workouts_first_again(a, athlete_id, res) ==
    IF IsDict(res) /\ Truthy(Get(res, "error"))
    THEN Returns(<<Lit("Error"), Lit(" listing workouts: "),
                   Val(GetOr(res, "message", JStr("Unknown error")))>>)
    ELSE [kind |-> "request",
          req |-> Request("/athlete/{athlete_id}/workouts", athlete_id, "GET"),
          activities |-> <<>>]

\* list_workouts from its response on
list_workouts_first(a, athlete_id, res) ==
    IF IsDict(res) /\ Truthy(Get(res, "error"))
    THEN Returns(<<Lit("Error"), Lit(" listing workouts: "),
                   Val(GetOr(res, "message", JStr("Unknown error")))>>)
    ELSE LET workouts == IF IsList(res) THEN res.l ELSE <<>>
             formatted == FormatOrSkip(SelectSeq(workouts, IsDict), Workout_from_dict,
                                       format_workout)
         IN IF workouts = <<>> THEN Returns(<<Lit("No workouts in library.")>>)
            ELSE IF ~formatted.ok THEN Raises(formatted.exc)
            ELSE IF formatted.val = <<>> THEN Returns(<<Lit("No workouts in library.")>>)
            ELSE Returns(<<Lit("Workout library:")>> \o Concat(formatted.val))

list_folders_start(a, default) ==
    LET r == resolve_athlete_id(a.athlete_id, default)
    IN IF r.error_msg # None THEN Returns(r.error_msg)
       ELSE Awaits(Request("/athlete/{athlete_id}/folders", r.athlete_id, "GET"))

\* list_folders from its response on
list_folders_first(a, athlete_id, res) ==
    IF IsDict(res) /\ Truthy(Get(res, "error"))
    THEN Returns(<<Lit("Error"), Lit(" listing folders: "),
                   Val(GetOr(res, "message", JStr("Unknown error")))>>)
    ELSE LET folders == IF IsList(res) THEN res.l ELSE <<>>
             formatted == FormatOrSkip(SelectSeq(folders, IsDict), Folder_from_dict,
                                       format_folder_summary)
         IN IF folders = <<>> THEN Returns(<<Lit("No folders found.")>>)
            ELSE IF ~formatted.ok THEN Raises(formatted.exc)
            ELSE IF formatted.val = <<>> THEN Returns(<<Lit("No folders found.")>>)
            ELSE Returns(<<Lit("Folders:")>> \o Concat(formatted.val))

\* create_bulk_workouts up to its request
create_bulk_workouts_start(a, default) ==
    LET r == resolve_athlete_id(a.athlete_id, default)
    IN IF r.error_msg # None THEN Returns(r.error_msg)
       ELSE IF ~Truthy(a.workouts)
       THEN Returns(<<Lit("No workouts provided. Pass a list of workout objects to create.")>>)
       ELSE Awaits([endpoint |-> "/athlete/{athlete_id}/workouts/bulk", id |-> r.athlete_id,
                    method |-> "POST", data |-> a.workouts])

\* create_bulk_workouts from its response on
create_bulk_workouts_first(a, athlete_id, res) ==
    IF IsDict(res) /\ Truthy(Get(res, "error"))
    THEN Returns(<<Lit("Error"), Lit(" creating bulk workouts: "),
                   Val(GetOr(res, "message", JStr("Unknown error")))>>)
    ELSE LET created == IF IsList(res) THEN res.l ELSE <<>>
         IN Returns(<<Lit("Successfully created "), Val(JInt(Len(created))),
                      Lit(" workout(s).")>>)

------------------------------------------------------------------------------
(* tools/events.py is not among the files given: create_bulk_events is      *)
(* written from the specification's Scenario E and from what                *)
(* tests/test_server.py asks of it, for invocations that pass athlete_id    *)
(* as every test does.                                                      *)

\* The keys every event must carry
RequiredEventKeys == <<"start_date_local", "category">>

\* tags is a list of strings
IsListOfStr(v) == IsList(v) /\ \A i \in 1..Len(v.l) : IsStr(v.l[i])

\* What is wrong with one item of `events`, one text per finding
EventProblems(ev) ==
    IF ~IsDict(ev) THEN <<<<Lit("expected a dict")>>>>
    ELSE LET missing == SelectSeq(RequiredEventKeys, LAMBDA k : ~Has(ev, k))
         IN [i \in 1..Len(missing) |-> <<Lit("missing required key "), Val(JStr(missing[i]))>>]
            \o (IF Has(ev, "indoor") /\ Get(ev, "indoor").t # "bool"
                THEN <<<<Lit("'indoor' must be"), Lit(" a bool")>>>> ELSE <<>>)
            \o (IF Has(ev, "tags") /\ ~IsListOfStr(Get(ev, "tags"))
                THEN <<<<Lit("'tags' must be a list of strings")>>>> ELSE <<>>)

\* The findings on every item, each under the item's index (from 0)
ValidateEvents(evs) ==
    Concat([i \in 1..Len(evs) |->
              Concat([j \in 1..Len(EventProblems(evs[i])) |->
                        <<Lit("Event "), Val(JInt(i - 1))>> \o EventProblems(evs[i])[j]])])

\* create_bulk_events that validates the first item only
create_bulk_events_start_first_item_only(a, default) ==
    IF ~Truthy(a.events) THEN Returns(<<Lit("No events provided.")>>)
    ELSE IF ValidateEvents(SubSeq(a.events.l, 1, 1)) # <<>>
    THEN Returns(<<Lit("Invalid event data")>> \o ValidateEvents(SubSeq(a.events.l, 1, 1)))
    ELSE Awaits([endpoint |-> "/athlete/{athlete_id}/events/bulk", id |-> a.athlete_id,
                 method |-> "POST", data |-> a.events])

\* create_bulk_events up to its request
create_bulk_events_start(a, default) ==
    IF ~Truthy(a.events) THEN Returns(<<Lit("No events provided.")>>)
    ELSE IF ValidateEvents(a.events.l) # <<>>
    THEN Returns(<<Lit("Invalid event data")>> \o ValidateEvents(a.events.l))
    ELSE Awaits([endpoint |-> "/athlete/{athlete_id}/events/bulk", id |-> a.athlete_id,
                 method |-> "POST", data |-> a.events])

\* create_bulk_events from its response on
create_bulk_events_first(a, athlete_id, res) ==
    IF IsDict(res) /\ Has(res, "error")
    THEN Returns(<<Lit("Error"), Lit(" creating bulk events: "),
                   Val(GetOr(res, "message", JStr("Unknown error")))>>)
    ELSE Returns(<<Lit("Successfully created/updated "), Val(JInt(Len(res.l))),
                   Lit(" event(s)")>>)

------------------------------------------------------------------------------
(* tools/search.py                                                         *)

search_activities_start(a, default) ==
    LET r == resolve_athlete_id(a.athlete_id, default)
    IN IF r.error_msg # None THEN Returns(r.error_msg)
       ELSE Awaits([endpoint |-> "/athlete/{athlete_id}/activities/search",
                    id |-> r.athlete_id, method |-> "GET",
                    params |-> IF Truthy(a.q) THEN JDict(<<<<"q", a.q>>>>) ELSE None])

\* [format_search_result(Activity.from_dict(a)) for a in activities if
\* isinstance(a, dict)]: nothing is caught
SearchResults(res) ==
    LET acts == SelectSeq(IF IsList(res) THEN res.l ELSE <<>>, IsDict)
    IN AllOk([i \in 1..Len(acts) |->
                ParseThenFormat(Activity_from_dict(acts[i]), format_search_result)])

\* search_activities from its response on
search_activities_first(a, athlete_id, res) ==
    IF IsDict(res) /\ Truthy(Get(res, "error"))
    THEN Returns(<<Lit("Error"), Lit(" searching activities: "),
                   Val(GetOr(res, "message", JStr("Unknown error")))>>)
    ELSE LET formatted == SearchResults(res)
         IN IF ~formatted.ok THEN Raises(formatted.exc)
            ELSE IF formatted.val = <<>> THEN Returns(<<Lit("No activities found.")>>)
            ELSE Returns(<<Lit("Search results:")>> \o Concat(formatted.val))

search_intervals_start(a, default) ==
    LET r == resolve_athlete_id(a.athlete_id, default)
    IN IF r.error_msg # None THEN Returns(r.error_msg)
       ELSE Awaits([endpoint |-> "/athlete/{athlete_id}/activities/interval-search",
                    id |-> r.athlete_id, method |-> "GET", params |-> None])

\* search_intervals from its response on
search_intervals_first(a, athlete_id, res) ==
    IF IsDict(res) /\ Truthy(Get(res, "error"))
    THEN Returns(<<Lit("Error"), Lit(" searching intervals: "),
                   Val(GetOr(res, "message", JStr("Unknown error")))>>)
    ELSE LET formatted == SearchResults(res)
         IN IF ~formatted.ok THEN Raises(formatted.exc)
            ELSE IF formatted.val = <<>>
            THEN Returns(<<Lit("No activities found with matching intervals.")>>)
            ELSE Returns(<<Lit("Interval search results:")>> \o Concat(formatted.val))

------------------------------------------------------------------------------
(* tools/custom_items.py                                                   *)

get_custom_items_start(a, default) ==
    LET r == resolve_athlete_id(a.athlete_id, default)
    IN IF r.error_msg # None THEN Returns(r.error_msg)
       ELSE Awaits(Request("/athlete/{athlete_id}/custom-item", r.athlete_id, "GET"))

\* One row of get_custom_items
CustomItemRow(item) ==
    <<Lit("- ID: "), Val(Get(item, "id")), Lit("  Name: "),
      Val(GetOr(item, "name", JStr("N/A"))), Lit("  Type: "),
      Val(GetOr(item, "type", JStr("N/A")))>>
    \o IF Truthy(Get(item, "description"))
       THEN <<Lit("  Description: "), Val(Get(item, "description"))>> ELSE <<>>

\* get_custom_items from its response on
get_custom_items_first(a, athlete_id, res) ==
    IF IsDict(res) /\ Has(res, "error")
    THEN Returns(<<Lit("Error"), Lit(" fetching custom items: "), Val(Get(res, "message"))>>)
    ELSE LET items == SelectSeq(IF IsList(res) THEN res.l ELSE <<>>, IsDict)
         IN IF items = <<>>
            THEN Returns(<<Lit("No custom items found for athlete "), Val(athlete_id)>>)
            ELSE Returns(<<Lit("Custom Items:")>>
                         \o Concat([i \in 1..Len(items) |-> CustomItemRow(items[i])]))

get_custom_item_by_id_start(a, default) ==
    LET r == resolve_athlete_id(a.athlete_id, default)
    IN IF r.error_msg # None THEN Returns(r.error_msg)
       ELSE Awaits([endpoint |-> "/athlete/{athlete_id}/custom-item/{item_id}",
                    id |-> r.athlete_id, item_id |-> a.item_id, method |-> "GET"])

\* get_custom_item_by_id from its response on
get_custom_item_by_id_first(a, athlete_id, res) ==
    IF IsDict(res) /\ Has(res, "error")
    THEN Returns(<<Lit("Error"), Lit(" fetching custom item: "), Val(Get(res, "message"))>>)
    ELSE IF ~Truthy(res) \/ ~IsDict(res)
    THEN Returns(<<Lit("No custom item found with ID "), Val(a.item_id)>>)
    ELSE LET out == ParseThenFormat(CustomItem_from_dict(res), format_custom_item_details)
         IN IF out.ok THEN Returns(out.val)
            ELSE IF out.exc \in Caught
            THEN Returns(<<Lit("Error"), Lit(": Failed to parse custom item data for "),
                           Val(a.item_id)>>)
            ELSE Raises(out.exc)

\* json.loads on the strings a caller passes as content
json_loads(text) ==
    CASE text = "{\"k\": 1}" -> Ok(JDict(<<<<"k", JInt(1)>>>>))
      [] text = "[]" -> Ok(JList(<<>>))
      [] text = "null" -> Ok(None)
      [] text = "\"abc\"" -> Ok(JStr("abc"))
      [] OTHER -> Exc("JSONDecodeError")

\* The request body with a content string sent as it came, never parsed
CustomItemData_raw(a, required) ==
    LET head == IF required
                THEN <<<<"name", a.name>>, <<"type", a.item_type>>>>
                ELSE (IF a.name # None THEN <<<<"name", a.name>>>> ELSE <<>>)
                     \o (IF a.item_type # None THEN <<<<"type", a.item_type>>>> ELSE <<>>)
        described == head \o (IF a.description # None
                               THEN <<<<"description", a.description>>>> ELSE <<>>)
        visible == IF a.visibility # None THEN <<<<"visibility", a.visibility>>>> ELSE <<>>
    IN IF a.content = None THEN Ok(JDict(described \o visible))
       ELSE Ok(JDict(Append(described, <<"content", a.content>>) \o visible))

\* The request body of create_custom_item and update_custom_item: Exc when a
\* content string is not JSON
CustomItemData(a, required) ==
    LET content == IF a.content.t = "str" THEN json_loads(a.content.s) ELSE Ok(a.content)
        head == IF required
                THEN <<<<"name", a.name>>, <<"type", a.item_type>>>>
                ELSE (IF a.name # None THEN <<<<"name", a.name>>>> ELSE <<>>)
                     \o (IF a.item_type # None THEN <<<<"type", a.item_type>>>> ELSE <<>>)
        described == head \o (IF a.description # None
                               THEN <<<<"description", a.description>>>> ELSE <<>>)
        visible == IF a.visibility # None THEN <<<<"visibility", a.visibility>>>> ELSE <<>>
    IN IF a.content = None THEN Ok(JDict(described \o visible))
       ELSE IF ~content.ok THEN content
       ELSE Ok(JDict(Append(described, <<"content", content.val>>) \o visible))

\* create_custom_item that sends the request without the content when the
\* content string is not JSON
create_custom_item_start_unvalidated(a, default) ==
    LET r == resolve_athlete_id(a.athlete_id, default)
        data == CustomItemData(a, TRUE)
    IN IF r.error_msg # None THEN Returns(r.error_msg)
       ELSE Awaits([endpoint |-> "/athlete/{athlete_id}/custom-item", id |-> r.athlete_id,
                    method |-> "POST",
                    data |-> IF data.ok THEN data.val
                             ELSE JDict(<<<<"name", a.name>>, <<"type", a.item_type>>>>)])

\* create_custom_item up to its request
create_custom_item_start(a, default) ==
    LET r == resolve_athlete_id(a.athlete_id, default)
        data == CustomItemData(a, TRUE)
    IN IF r.error_msg # None THEN Returns(r.error_msg)
       ELSE IF ~data.ok
       THEN Returns(<<Lit("Error"), Lit(": content must be valid JSON when passed as a string.")>>)
       ELSE Awaits([endpoint |-> "/athlete/{athlete_id}/custom-item", id |-> r.athlete_id,
                    method |-> "POST", data |-> data.val])

\* The same without the test for an unexpected response
CustomItemWritten_lenient(res, verb) ==
    IF IsDict(res) /\ Has(res, "error")
    THEN Returns(<<Lit("Error"), Lit(" " \o verb.ing \o " custom item: "),
                   Val(Get(res, "message"))>>)
    ELSE Returns(<<Lit("Successfully " \o verb.ed \o " custom item:")>>)

\* create_custom_item and update_custom_item from their response on
CustomItemWritten(res, verb) ==
    IF IsDict(res) /\ Has(res, "error")
    THEN Returns(<<Lit("Error"), Lit(" " \o verb.ing \o " custom item: "),
                   Val(Get(res, "message"))>>)
    ELSE IF ~Truthy(res) \/ ~IsDict(res)
    THEN Returns(<<Lit("Error"),
                   Lit(": Unexpected response when " \o verb.ing \o " custom item.")>>)
    ELSE LET details == ParseThenFormat(CustomItem_from_dict(res), format_custom_item_details)
         IN IF details.ok
            THEN Returns(<<Lit("Successfully " \o verb.ed \o " custom item:")>> \o details.val)
            ELSE IF details.exc \in Caught
            THEN Returns(<<Lit("Custom item " \o verb.ed \o " (ID: "),
                           Val(GetOr(res, "id", JStr("unknown"))),
                           Lit("), but failed to format response.")>>)
            ELSE Raises(details.exc)

create_custom_item_first(a, athlete_id, res) ==
    CustomItemWritten(res, [ing |-> "creating", ed |-> "created"])

\* update_custom_item up to its request
update_custom_item_start(a, default) ==
    LET r == resolve_athlete_id(a.athlete_id, default)
        data == CustomItemData(a, FALSE)
    IN IF r.error_msg # None THEN Returns(r.error_msg)
       ELSE IF ~data.ok
       THEN Returns(<<Lit("Error"), Lit(": content must be valid JSON when passed as a string.")>>)
       ELSE Awaits([endpoint |-> "/athlete/{athlete_id}/custom-item/{item_id}",
                    id |-> r.athlete_id, item_id |-> a.item_id, method |-> "PUT",
                    data |-> data.val])

update_custom_item_first(a, athlete_id, res) ==
    CustomItemWritten(res, [ing |-> "updating", ed |-> "updated"])

\* delete_custom_item without its error test
delete_custom_item_first_unchecked(a, athlete_id, res) ==
    Returns(<<Lit("Successfully deleted custom item "), Val(a.item_id)>>)

delete_custom_item_start(a, default) ==
    LET r == resolve_athlete_id(a.athlete_id, default)
    IN IF r.error_msg # None THEN Returns(r.error_msg)
       ELSE Awaits([endpoint |-> "/athlete/{athlete_id}/custom-item/{item_id}",
                    id |-> r.athlete_id, item_id |-> a.item_id, method |-> "DELETE"])

\* delete_custom_item from its response on
delete_custom_item_first(a, athlete_id, res) ==
    IF IsDict(res) /\ Has(res, "error")
    THEN Returns(<<Lit("Error"), Lit(" deleting custom item: "), Val(Get(res, "message"))>>)
    ELSE Returns(<<Lit("Successfully deleted custom item "), Val(a.item_id)>>)

------------------------------------------------------------------------------
(* tools/athlete.py                                                        *)

get_athlete_start(a, default) ==
    LET r == resolve_athlete_id(a.athlete_id, default)
    IN IF r.error_msg # None THEN Returns(r.error_msg)
       ELSE Awaits(Request("/athlete/{athlete_id}", r.athlete_id, "GET"))

\* try: return formatter(cls.from_dict(result)) / except: return failure text
FormatOrFail(res, from_dict(_), formatter(_), failure) ==
    LET out == ParseThenFormat(from_dict(res), formatter)
    IN IF out.ok THEN Returns(out.val)
       ELSE IF out.exc \in Caught THEN Returns(failure)
       ELSE Raises(out.exc)

\* get_athlete from its response on
get_athlete_first(a, athlete_id, res) ==
    IF IsDict(res) /\ Truthy(Get(res, "error"))
    THEN Returns(<<Lit("Error"), Lit(" fetching athlete: "),
                   Val(GetOr(res, "message", JStr("Unknown error")))>>)
    ELSE IF ~IsDict(res) THEN Returns(<<Lit("Unexpected response from API.")>>)
    ELSE FormatOrFail(res, Athlete_from_dict, format_athlete_summary,
                      <<Lit("Error"), Lit(": Failed to parse athlete data.")>>)

\* get_sport_settings up to its request
get_sport_settings_start(a, default) ==
    LET r == resolve_athlete_id(a.athlete_id, default)
    IN IF r.error_msg # None THEN Returns(r.error_msg)
       ELSE Awaits([endpoint |-> IF Truthy(a.sport_type)
                                 THEN "/athlete/{athlete_id}/sport-settings/{sport_type}"
                                 ELSE "/athlete/{athlete_id}/sport-settings",
                    id |-> r.athlete_id, sport_type |-> a.sport_type, method |-> "GET"])

\* One entry of get_sport_settings
FormatSportEntry(sport) ==
    LET out == ParseThenFormat(AthleteSportSettings_from_dict(sport), format_sport_settings)
    IN IF out.ok THEN out
       ELSE IF out.exc \in Caught
       THEN Ok(<<Lit("[Sport setting '"), Val(GetOr(sport, "type", JStr("Unknown"))),
                 Lit("': failed to format]")>>)
       ELSE out

\* get_sport_settings from its response on
get_sport_settings_first(a, athlete_id, res) ==
    IF IsDict(res) /\ Truthy(Get(res, "error"))
    THEN Returns(<<Lit("Error"), Lit(" fetching sport settings: "),
                   Val(GetOr(res, "message", JStr("Unknown error")))>>)
    ELSE IF Truthy(a.sport_type)
    THEN IF ~IsDict(res) THEN Returns(<<Lit("Unexpected response from API.")>>)
         ELSE FormatOrFail(res, AthleteSportSettings_from_dict, format_sport_settings,
                           <<Lit("Error"), Lit(": Failed to parse sport settings.")>>)
    ELSE LET items == IF IsList(res) THEN res.l
                      ELSE IF IsDict(res) THEN [i \in 1..Len(res.kv) |-> res.kv[i][2]]
                      ELSE <<>>
             sports == SelectSeq(items, IsDict)
             formatted == AllOk([i \in 1..Len(sports) |-> FormatSportEntry(sports[i])])
         IN IF ~formatted.ok THEN Raises(formatted.exc)
            ELSE IF formatted.val = <<>> THEN Returns(<<Lit("No sport settings found.")>>)
            ELSE Returns(Concat(formatted.val))

get_training_plan_start(a, default) ==
    LET r == resolve_athlete_id(a.athlete_id, default)
    IN IF r.error_msg # None THEN Returns(r.error_msg)
       ELSE Awaits(Request("/athlete/{athlete_id}/training-plan", r.athlete_id, "GET"))

\* get_training_plan from its response on
get_training_plan_first(a, athlete_id, res) ==
    IF IsDict(res) /\ Truthy(Get(res, "error"))
    THEN Returns(<<Lit("Error"), Lit(" fetching training plan: "),
                   Val(GetOr(res, "message", JStr("Unknown error")))>>)
    ELSE IF ~IsDict(res) THEN Returns(<<Lit("No training plan found.")>>)
    ELSE FormatOrFail(res, AthleteTrainingPlan_from_dict, format_training_plan,
                      <<Lit("Error"), Lit(": Failed to parse training plan data.")>>)

------------------------------------------------------------------------------
(* tools/seasons.py                                                        *)

\* date + "T00:00:00"
LocalMidnight(date) == [t |-> "str", s |-> "T00:00:00", ymd |-> date.ymd]

\* list_seasons up to its request
list_seasons_start(a, default) ==
    LET r == resolve_athlete_id(a.athlete_id, default)
    IN IF r.error_msg # None THEN Returns(r.error_msg)
       ELSE Awaits([endpoint |-> "/athlete/{athlete_id}/events", id |-> r.athlete_id,
                    method |-> "GET",
                    params |-> [oldest |-> IF ~Truthy(a.start_date) THEN SeasonDefaultStart
                                           ELSE a.start_date,
                                newest |-> IF ~Truthy(a.end_date) THEN SeasonDefaultEnd
                                           ELSE a.end_date,
                                category |-> "SEASON_START"]])

\* One entry of list_seasons
FormatSeasonEntry(event) ==
    LET out == ParseThenFormat(EventResponse_from_dict(event), format_season_summary)
    IN IF out.ok THEN out
       ELSE IF out.exc \in Caught
       THEN Ok(<<Lit("[Season "), Val(GetOr(event, "id", JStr("unknown"))),
                 Lit(": failed to format]")>>)
       ELSE out

\* list_seasons from its response on
list_seasons_first(a, athlete_id, res) ==
    IF IsDict(res) /\ Has(res, "error")
    THEN Returns(<<Lit("Error"), Lit(" fetching seasons: "),
                   Val(GetOr(res, "message", JStr("Unknown error")))>>)
    ELSE LET events == SelectSeq(IF IsList(res) THEN res.l ELSE <<>>, IsDict)
             formatted == AllOk([i \in 1..Len(events) |-> FormatSeasonEntry(events[i])])
         IN IF events = <<>>
            THEN Returns(<<Lit("No seasons found for athlete "), Val(athlete_id),
                           Lit(" in the specified date range.")>>)
            ELSE IF ~formatted.ok THEN Raises(formatted.exc)
            ELSE Returns(<<Lit("Seasons:")>> \o Concat(formatted.val))

\* The request body with every field of the season written, the ones the
\* caller left out as null
SeasonData_every_field(a, required) ==
    JDict(<<<<"category", JStr("SEASON_START")>>, <<"name", a.name>>,
            <<"start_date_local", IF a.start_date # None THEN LocalMidnight(a.start_date)
                                  ELSE None>>,
            <<"end_date_local", IF a.end_date # None THEN LocalMidnight(a.end_date)
                                ELSE None>>,
            <<"description", a.description>>, <<"color", a.color>>>>)

\* The request body of create_season and update_season
SeasonData(a, required) ==
    JDict((IF required
           THEN <<<<"start_date_local", LocalMidnight(a.start_date)>>,
                  <<"category", JStr("SEASON_START")>>, <<"name", a.name>>>>
           ELSE <<<<"category", JStr("SEASON_START")>>>>
                \o (IF a.name # None THEN <<<<"name", a.name>>>> ELSE <<>>)
                \o (IF a.start_date # None
                    THEN <<<<"start_date_local", LocalMidnight(a.start_date)>>>> ELSE <<>>))
          \o (IF a.end_date # None
              THEN <<<<"end_date_local", LocalMidnight(a.end_date)>>>> ELSE <<>>)
          \o (IF a.description # None THEN <<<<"description", a.description>>>> ELSE <<>>)
          \o (IF a.color # None THEN <<<<"color", a.color>>>> ELSE <<>>))

\* create_season up to its request
create_season_start(a, default) ==
    LET r == resolve_athlete_id(a.athlete_id, default)
    IN IF r.error_msg # None THEN Returns(r.error_msg)
       ELSE Awaits([endpoint |-> "/athlete/{athlete_id}/events", id |-> r.athlete_id,
                    method |-> "POST", data |-> SeasonData(a, TRUE)])

\* create_season and update_season from their response on
SeasonWritten(res, verb) ==
    IF IsDict(res) /\ Has(res, "error")
    THEN Returns(<<Lit("Error"), Lit(" " \o verb.ing \o " season: "),
                   Val(GetOr(res, "message", JStr("Unknown error")))>>)
    ELSE IF ~IsDict(res)
    THEN Returns(<<Lit("Error"), Lit(" " \o verb.ing \o " season: unexpected response.")>>)
    ELSE LET out == ParseThenFormat(EventResponse_from_dict(res), format_season_summary)
         IN IF out.ok
            THEN Returns(<<Lit("Season " \o verb.ed \o " successfully:")>> \o out.val)
            ELSE IF out.exc \in Caught
            THEN Returns(<<Lit("Season " \o verb.ed \o " but failed to format response.")>>)
            ELSE Raises(out.exc)

create_season_first(a, athlete_id, res) ==
    SeasonWritten(res, [ing |-> "creating", ed |-> "created"])

\* update_season up to its request
update_season_start(a, default) ==
    LET r == resolve_athlete_id(a.athlete_id, default)
    IN IF r.error_msg # None THEN Returns(r.error_msg)
       ELSE Awaits([endpoint |-> "/athlete/{athlete_id}/events/{event_id}",
                    id |-> r.athlete_id, event_id |-> a.event_id, method |-> "PUT",
                    data |-> SeasonData(a, FALSE)])

update_season_first(a, athlete_id, res) ==
    SeasonWritten(res, [ing |-> "updating", ed |-> "updated"])

------------------------------------------------------------------------------
(* The tool functions and what the outside hands them.                     *)

ActivityTools == {"get_activity_details", "get_activity_intervals", "get_activity_streams",
                  "get_activity_messages", "add_activity_message"}

AthleteTools == {"get_activities", "get_wellness_data", "list_workouts", "list_folders",
                 "create_bulk_workouts", "search_activities", "search_intervals",
                 "get_custom_items", "get_custom_item_by_id", "create_custom_item",
                 "update_custom_item", "delete_custom_item", "get_athlete",
                 "get_sport_settings", "get_training_plan", "list_seasons",
                 "create_season", "update_season"}

EventTools == {"create_bulk_events"}

Tools == ActivityTools \cup AthleteTools \cup EventTools

\* The structured error value of make_intervals_request
ErrorValue(message) ==
    JDict(<<<<"error", JBool(TRUE)>>, <<"message", JStr(message)>>>>)

Messages == {"Not found"}

StartDate == JDate(<<2024, 3, 1>>)
NotADate == JDate(<<2024, 2, 30>>)      \* fromisoformat raises ValueError on it

Dict1(k, v) == JDict(<<<<k, v>>>>)
Dict2(k1, v1, k2, v2) == JDict(<<<<k1, v1>>, <<k2, v2>>>>)
Dict3(k1, v1, k2, v2, k3, v3) == JDict(<<<<k1, v1>>, <<k2, v2>>, <<k3, v3>>>>)

ActivityItems ==
    {Dict3("id", JStr("a1"), "name", JStr("Morning Ride"),
           "start_date_local", JDate(<<2024, 3, 5>>)),
     Dict3("id", JStr("a2"), "name", JStr("Evening Run"),
           "start_date_local", JDate(<<2024, 3, 9>>)),
     Dict2("id", JStr("a3"), "name", JStr("Unnamed")),
     Dict1("id", JStr("a4")),
     JInt(5)}

WellnessItems ==
    {Dict2("id", JStr("2024-03-02"), "ctl", JInt(40)),
     Dict2("id", JStr("2024-03-03"), "sportInfo", JInt(5)),
     Dict1("sportInfo", JBool(TRUE)),
     Dict1("ctl", JInt(75)),
     JInt(5)}

WorkoutItems ==
    {Dict2("id", JInt(1), "name", JStr("Sweet Spot")),
     Dict2("id", JInt(2), "workout_doc", Dict1("pace_units", JStr("bogus"))),
     Dict2("id", JInt(3), "workout_doc", Dict1("steps", None)),
     JInt(5)}

FolderItems ==
    {Dict2("id", JInt(1), "name", JStr("Base")),
     Dict2("id", JInt(2), "workouts", JInt(5)),
     Dict2("id", JInt(3), "workouts",
           JList(<<Dict2("id", JInt(1), "name", JStr("Sweet Spot")),
                   Dict2("id", JInt(2), "workout_doc",
                         Dict1("target", JStr("bogus")))>>)),
     JInt(5)}

\* The items a response to the tool's request can hold
Items(t) ==
    CASE t \in {"get_activities", "get_activity_details", "search_activities",
                "search_intervals"} -> ActivityItems
      [] t = "get_wellness_data" -> WellnessItems
      [] t \in {"list_workouts", "create_bulk_workouts"} -> WorkoutItems
      [] t = "list_folders" -> FolderItems
      [] t = "get_activity_streams" ->
            {Dict2("type", JStr("watts"), "data", JList(<<JInt(200)>>)),
             Dict2("type", JStr("time"), "data", JInt(3)), JInt(5)}
      [] t \in {"get_activity_messages", "add_activity_message"} ->
            {Dict2("id", JInt(9), "content", JStr("Nice")), Dict1("content", JStr("Nice")),
             Dict2("id", None, "content", JStr("Nice"))}
      [] t = "get_activity_intervals" ->
            {Dict1("icu_intervals", JList(<<Dict1("label", JStr("L1"))>>)),
             Dict1("icu_intervals", JInt(5)), Dict1("id", JStr("a1"))}
      [] t \in {"list_seasons", "create_season", "update_season"} ->
            {Dict2("id", JInt(3), "name", JStr("Base")),
             Dict2("id", JInt(4), "workout", Dict1("intervals", JInt(5)))}
      [] t = "get_sport_settings" ->
            {Dict2("type", JStr("Run"), "ftp", JInt(250)), JInt(5)}
      [] OTHER ->
            {Dict2("id", JInt(7), "name", JStr("Chart")), Dict1("name", JStr("Plan"))}

\* A well-formed event, as the tests pass it
GoodEvent ==
    <<<<"start_date_local", JStr("2024-03-15T00:00:00")>>, <<"category", JStr("WORKOUT")>>,
      <<"name", JStr("Run")>>>>

\* The items an `events` argument can hold
EventItems ==
    {JDict(GoodEvent),
     JDict(GoodEvent \o <<<<"indoor", JBool(TRUE)>>, <<"tags", JList(<<JStr("key")>>)>>>>),
     JInt(42),
     Dict1("name", JStr("Missing fields")),
     Dict2("category", JStr("NOTE"), "name", JStr("Rest Day")),
     JDict(GoodEvent \o <<<<"indoor", JStr("yes")>>>>),
     JDict(GoodEvent \o <<<<"tags", JStr("not-a-list")>>>>),
     JDict(GoodEvent \o <<<<"tags", JList(<<JInt(1)>>)>>>>)}

\* What the tests of create_bulk_events let make_intervals_request return
EventResponses ==
    {ErrorValue(m) : m \in Messages}
    \cup {JList(l) : l \in SeqsUpTo({Dict2("id", JInt(1), "name", JStr("Run"))}, MaxEvents)}

\* What make_intervals_request can return to the tool's first request
Responses(t) ==
    IF t \in EventTools THEN EventResponses ELSE
    {None, JInt(3), JStr("oops"), JDict(<<>>), Dict2("id", JInt(7), "error", None)}
    \cup {ErrorValue(m) : m \in Messages}
    \cup {JList(l) : l \in SeqsUpTo(Items(t), MaxItems)}
    \cup {i \in Items(t) : IsDict(i)}
    \cup IF t = "get_activities"
         THEN {Dict1("activities", JList(<<i>>)) : i \in ActivityItems}
         ELSE IF t = "get_wellness_data"
         THEN {Dict1("2024-03-01", i) : i \in WellnessItems}
              \cup {Dict2("2024-03-01", i, "2024-03-02", j) : i, j \in WellnessItems}
         ELSE {}

\* What it can return to the supplementary request of get_activities
MoreResponses ==
    {None, JDict(<<>>)}
    \cup {ErrorValue(m) : m \in Messages}
    \cup {JList(l) : l \in SeqsUpTo(ActivityItems, MaxMore)}

AthleteIds == {None, JStr("i1")}

\* The arguments a caller can give the tool
ArgsOf(t) ==
    CASE t = "get_activities" ->
            {[NoArgs EXCEPT !.athlete_id = id, !.limit = n, !.include_unnamed = u,
                            !.start_date = d]
               : id \in AthleteIds, n \in 0..MaxLimit, u \in BOOLEAN,
                 d \in {None, StartDate, NotADate}}
      [] t \in {"get_wellness_data", "list_seasons"} ->
            {[NoArgs EXCEPT !.athlete_id = id, !.start_date = d]
               : id \in AthleteIds, d \in {None, StartDate}}
      [] t = "create_custom_item" ->
            {[NoArgs EXCEPT !.athlete_id = id, !.name = JStr("Chart"),
                            !.item_type = JStr("ZONES"), !.content = c]
               : id \in AthleteIds,
                 c \in {None, Dict1("k", JInt(1)), JStr("{\"k\": 1}"), JStr("\"abc\""),
                       JStr("not valid json")}}
      [] t = "update_custom_item" ->
            {[NoArgs EXCEPT !.athlete_id = id, !.name = n, !.item_type = ty,
                            !.description = d, !.visibility = v, !.content = c]
               : id \in AthleteIds, n \in {None, JStr(""), JStr("Chart")},
                 ty \in {None, JStr("ZONES")}, d \in {None, JStr("")},
                 v \in {None, JStr("PRIVATE")},
                 c \in {None, Dict1("k", JInt(1)), JStr("{\"k\": 1}"), JStr("\"abc\""),
                       JStr("not valid json")}}
      [] t = "create_bulk_workouts" ->
            {[NoArgs EXCEPT !.athlete_id = id, !.workouts = w]
               : id \in AthleteIds,
                 w \in {None, JList(<<>>), JList(<<Dict1("name", JStr("Sweet Spot"))>>)}}
      [] t = "get_sport_settings" ->
            {[NoArgs EXCEPT !.athlete_id = id, !.sport_type = st]
               : id \in AthleteIds, st \in {None, JStr("Run")}}
      [] t = "search_activities" ->
            {[NoArgs EXCEPT !.athlete_id = id, !.q = q]
               : id \in AthleteIds, q \in {None, JStr("tempo")}}
      [] t = "create_season" ->
            {[NoArgs EXCEPT !.athlete_id = id, !.name = JStr("Base"),
                            !.start_date = StartDate]
               : id \in AthleteIds}
      [] t = "update_season" ->
            {[NoArgs EXCEPT !.athlete_id = id, !.name = n, !.start_date = sd,
                            !.end_date = ed, !.description = d, !.color = c]
               : id \in AthleteIds, n \in {None, JStr(""), JStr("Base")},
                 sd \in {None, StartDate}, ed \in {None, StartDate},
                 d \in {None, JStr("")}, c \in {None, JStr("#FF5733")}}
      [] t = "create_bulk_events" ->
            {[NoArgs EXCEPT !.athlete_id = JStr("i1"), !.events = e]
               : e \in {None} \cup {JList(l) : l \in SeqsUpTo(EventItems, MaxEvents)}}
      [] t = "add_activity_message" -> {[NoArgs EXCEPT !.content = JStr("Nice")]}
      [] t \in ActivityTools -> {NoArgs}
      [] OTHER -> {[NoArgs EXCEPT !.athlete_id = id] : id \in AthleteIds}

------------------------------------------------------------------------------
(* An invocation of a tool function, cut at its awaits.                    *)

\* The tool function up to its first await or its return
Start(t, a, default) ==
    CASE t = "get_activities" -> get_activities_start(a, default)
      [] t = "get_activity_details" -> get_activity_details_start(a, default)
      [] t = "get_activity_intervals" -> get_activity_intervals_start(a, default)
      [] t = "get_activity_streams" -> get_activity_streams_start(a, default)
      [] t = "get_activity_messages" -> get_activity_messages_start(a, default)
      [] t = "add_activity_message" -> add_activity_message_start(a, default)
      [] t = "get_wellness_data" -> get_wellness_data_start(a, default)
      [] t = "list_workouts" -> list_workouts_start(a, default)
      [] t = "list_folders" -> list_folders_start(a, default)
      [] t = "create_bulk_workouts" -> create_bulk_workouts_start(a, default)
      [] t = "search_activities" -> search_activities_start(a, default)
      [] t = "search_intervals" -> search_intervals_start(a, default)
      [] t = "get_custom_items" -> get_custom_items_start(a, default)
      [] t = "get_custom_item_by_id" -> get_custom_item_by_id_start(a, default)
      [] t = "create_custom_item" -> create_custom_item_start(a, default)
      [] t = "update_custom_item" -> update_custom_item_start(a, default)
      [] t = "delete_custom_item" -> delete_custom_item_start(a, default)
      [] t = "get_athlete" -> get_athlete_start(a, default)
      [] t = "get_sport_settings" -> get_sport_settings_start(a, default)
      [] t = "get_training_plan" -> get_training_plan_start(a, default)
      [] t = "list_seasons" -> list_seasons_start(a, default)
      [] t = "create_season" -> create_season_start(a, default)
      [] t = "update_season" -> update_season_start(a, default)
      [] t = "create_bulk_events" -> create_bulk_events_start(a, default)

\* The tool function from the response to its first request on
First(t, a, athlete_id, res) ==
    CASE t = "get_activities" -> get_activities_first(a, athlete_id, res)
      [] t = "get_activity_details" -> get_activity_details_first(a, athlete_id, res)
      [] t = "get_activity_intervals" -> get_activity_intervals_first(a, athlete_id, res)
      [] t = "get_activity_streams" -> get_activity_streams_first(a, athlete_id, res)
      [] t = "get_activity_messages" -> get_activity_messages_first(a, athlete_id, res)
      [] t = "add_activity_message" -> add_activity_message_first(a, athlete_id, res)
      [] t = "get_wellness_data" -> get_wellness_data_first(a, athlete_id, res)
      [] t = "list_workouts" -> list_workouts_first(a, athlete_id, res)
      [] t = "list_folders" -> list_folders_first(a, athlete_id, res)
      [] t = "create_bulk_workouts" -> create_bulk_workouts_first(a, athlete_id, res)
      [] t = "search_activities" -> search_activities_first(a, athlete_id, res)
      [] t = "search_intervals" -> search_intervals_first(a, athlete_id, res)
      [] t = "get_custom_items" -> get_custom_items_first(a, athlete_id, res)
      [] t = "get_custom_item_by_id" -> get_custom_item_by_id_first(a, athlete_id, res)
      [] t = "create_custom_item" -> create_custom_item_first(a, athlete_id, res)
      [] t = "update_custom_item" -> update_custom_item_first(a, athlete_id, res)
      [] t = "delete_custom_item" -> delete_custom_item_first(a, athlete_id, res)
      [] t = "get_athlete" -> get_athlete_first(a, athlete_id, res)
      [] t = "get_sport_settings" -> get_sport_settings_first(a, athlete_id, res)
      [] t = "get_training_plan" -> get_training_plan_first(a, athlete_id, res)
      [] t = "list_seasons" -> list_seasons_first(a, athlete_id, res)
      [] t = "create_season" -> create_season_first(a, athlete_id, res)
      [] t = "update_season" -> update_season_first(a, athlete_id, res)
      [] t = "create_bulk_events" -> create_bulk_events_first(a, athlete_id, res)

Defaults == {JStr(""), JStr("i9")}

\* The replacements of Activity.from_dict the tests install
FlakyFromDicts == {[id |-> JStr("a2"), exc |-> e] : e \in Caught}

Init ==
    /\ config_athlete_id \in Defaults
    /\ flaky_from_dict \in {None} \cup FlakyFromDicts
    /\ pc = "idle"
    /\ tool = "none"
    /\ args = NoArgs
    /\ athlete_id_to_use = None
    /\ requests = <<>>
    /\ in_flight = 0
    /\ result = None
    /\ more_result = None
    /\ activities = <<>>
    /\ returned = NotReturned
    /\ schema_cls = "none"
    /\ schema_data = None
    /\ schema_obj = NotParsed
    /\ schema_dict = None
    /\ http_attempts = <<>>
    /\ request_result = Pending

\* A caller invokes tool t with arguments a; the function runs to its first
\* await or to its return
Invoke(t, a) ==
    LET out == Start(t, a, config_athlete_id)
    IN /\ pc = "idle"
       /\ tool' = t
       /\ args' = a
       /\ IF out.kind = "request"
          THEN /\ pc' = "await_first"
               /\ requests' = <<out.req>>
               /\ in_flight' = in_flight + 1
               /\ athlete_id_to_use' = IF t \in AthleteTools THEN out.req.id ELSE None
               /\ returned' = NotReturned
          ELSE /\ pc' = "done"
               /\ returned' = out
               /\ UNCHANGED <<requests, in_flight, athlete_id_to_use>>
       /\ UNCHANGED <<config_athlete_id, flaky_from_dict, result, more_result, activities>>
       /\ UNCHANGED <<schema_vars, client_vars>>

\* make_intervals_request answers the first request and the function runs on
FirstResponse(res) ==
    LET out == First(tool, args, athlete_id_to_use, res)
    IN /\ pc = "await_first"
       /\ result' = res
       /\ IF out.kind = "request"
          THEN /\ pc' = "await_more"
               /\ requests' = Append(requests, out.req)
               /\ in_flight' = in_flight - 1 + 1
               /\ activities' = out.activities
               /\ returned' = NotReturned
          ELSE /\ pc' = "done"
               /\ in_flight' = in_flight - 1
               /\ returned' = out
               /\ UNCHANGED <<requests, activities>>
       /\ UNCHANGED <<config_athlete_id, flaky_from_dict, tool, args, athlete_id_to_use,
                      more_result>>
       /\ UNCHANGED <<schema_vars, client_vars>>

\* make_intervals_request answers the supplementary request of get_activities
MoreResponse(res) ==
    /\ pc = "await_more"
    /\ more_result' = res
    /\ in_flight' = in_flight - 1
    /\ pc' = "done"
    /\ returned' = get_activities_more(args, athlete_id_to_use, activities, res)
    /\ UNCHANGED <<config_athlete_id, flaky_from_dict, tool, args, athlete_id_to_use,
                   requests, result, activities>>
    /\ UNCHANGED <<schema_vars, client_vars>>

\* The caller has the outcome; the next invocation starts afresh
Finish ==
    /\ pc = "done"
    /\ pc' = "idle"
    /\ tool' = "none"
    /\ args' = NoArgs
    /\ athlete_id_to_use' = None
    /\ requests' = <<>>
    /\ result' = None
    /\ more_result' = None
    /\ activities' = <<>>
    /\ returned' = NotReturned
    /\ UNCHANGED <<config_athlete_id, flaky_from_dict, in_flight>>
    /\ UNCHANGED <<schema_vars, client_vars>>

Next ==
    \/ \E t \in Tools : \E a \in ArgsOf(t) : Invoke(t, a)
    \/ \E res \in Responses(tool) : FirstResponse(res)
    \/ \E res \in MoreResponses : MoreResponse(res)
    \/ Finish

Spec == Init /\ [][Next]_vars

------------------------------------------------------------------------------
(* The schema constructors called directly, as tests/test_schemas.py calls *)
(* them: cls.from_dict(data) for an entity class and a raw dict.           *)

EntityClasses ==
    {"Activity", "ActivityInterval", "ActivityIntervalGroup", "IntervalsData",
     "ActivityMessage", "WellnessSportInfo", "WellnessEntry", "Athlete",
     "AthleteSportSettings", "CustomItem", "Workout", "Folder", "EventWorkout",
     "EventResponse"}

\* cls.from_dict(data)
from_dict(cls, data) ==
    CASE cls = "Activity" -> Activity_from_dict(data)
      [] cls = "ActivityInterval" -> Ok(ActivityInterval_from_dict(data))
      [] cls = "ActivityIntervalGroup" -> Ok(ActivityIntervalGroup_from_dict(data))
      [] cls = "IntervalsData" -> IntervalsData_from_dict(data)
      [] cls = "ActivityMessage" -> ActivityMessage_from_dict(data)
      [] cls = "WellnessSportInfo" -> Ok(WellnessSportInfo_from_dict(data))
      [] cls = "WellnessEntry" -> WellnessEntry_from_dict(data)
      [] cls = "Athlete" -> Athlete_from_dict(data)
      [] cls = "AthleteSportSettings" -> AthleteSportSettings_from_dict(data)
      [] cls = "CustomItem" -> CustomItem_from_dict(data)
      [] cls = "Workout" -> Workout_from_dict(data)
      [] cls = "Folder" -> Folder_from_dict(data)
      [] cls = "EventWorkout" -> EventWorkout_from_dict(data)
      [] cls = "EventResponse" -> EventResponse_from_dict(data)

\* The fields a from_dict fills from a prioritized list of source keys, the
\* canonical key first, and the kind of value the field holds
AliasedFields ==
    {[cls |-> "Activity", field |-> "start_date", kind |-> "str",
      keys |-> <<"start_date", "startTime", "start_date_local">>],
     [cls |-> "Activity", field |-> "elapsed_time", kind |-> "num",
      keys |-> <<"elapsed_time", "duration">>],
     [cls |-> "Activity", field |-> "total_elevation_gain", kind |-> "num",
      keys |-> <<"total_elevation_gain", "elevationGain">>],
     [cls |-> "Activity", field |-> "average_heartrate", kind |-> "num",
      keys |-> <<"average_heartrate", "avgHr">>],
     [cls |-> "Activity", field |-> "icu_training_load", kind |-> "num",
      keys |-> <<"icu_training_load", "trainingLoad">>],
     [cls |-> "Activity", field |-> "icu_average_watts", kind |-> "num",
      keys |-> <<"icu_average_watts", "avgPower", "average_watts">>],
     [cls |-> "WellnessEntry", field |-> "resting_hr", kind |-> "num",
      keys |-> <<"restingHR", "restingHr">>],
     [cls |-> "Athlete", field |-> "weight", kind |-> "num",
      keys |-> <<"weight", "icu_weight">>],
     [cls |-> "Athlete", field |-> "icu_resting_hr", kind |-> "num",
      keys |-> <<"icu_resting_hr", "restingHr", "resting_hr">>],
     [cls |-> "Athlete", field |-> "location", kind |-> "str",
      keys |-> <<"location", "city">>],
     [cls |-> "AthleteSportSettings", field |-> "max_hr", kind |-> "num",
      keys |-> <<"max_hr", "maxHr">>],
     [cls |-> "AthleteSportSettings", field |-> "power_zones", kind |-> "list",
      keys |-> <<"power_zones", "zones", "powerZones">>],
     [cls |-> "AthleteSportSettings", field |-> "pace_zones", kind |-> "list",
      keys |-> <<"pace_zones", "paceZones">>],
     [cls |-> "AthleteSportSettings", field |-> "warmup_time", kind |-> "num",
      keys |-> <<"warmup_time", "warmup">>],
     [cls |-> "AthleteSportSettings", field |-> "cooldown_time", kind |-> "num",
      keys |-> <<"cooldown_time", "cooldown">>],
     [cls |-> "Workout", field |-> "folder_id", kind |-> "num",
      keys |-> <<"folder_id", "folderId">>],
     [cls |-> "Workout", field |-> "moving_time", kind |-> "num",
      keys |-> <<"moving_time", "duration">>],
     [cls |-> "Workout", field |-> "icu_training_load", kind |-> "num",
      keys |-> <<"icu_training_load", "tss">>],
     [cls |-> "Workout", field |-> "workout_doc", kind |-> "doc",
      keys |-> <<"workout_doc", "workoutDoc">>],
     [cls |-> "Folder", field |-> "workouts", kind |-> "workouts",
      keys |-> <<"workouts", "children">>],
     [cls |-> "EventWorkout", field |-> "moving_time", kind |-> "num",
      keys |-> <<"moving_time", "duration">>],
     [cls |-> "EventWorkout", field |-> "icu_training_load", kind |-> "num",
      keys |-> <<"icu_training_load", "tss">>],
     [cls |-> "EventResponse", field |-> "start_date_local", kind |-> "str",
      keys |-> <<"start_date_local", "date">>]}

\* The fields a from_dict passes through _safe_enum, the key read and the
\* enum class
EnumFields ==
    {[cls |-> "Activity", field |-> "type", key |-> "type", members |-> SportType],
     [cls |-> "Workout", field |-> "type", key |-> "type", members |-> SportType],
     [cls |-> "AthleteSportSettings", field |-> "type", key |-> "type",
      members |-> SportType],
     [cls |-> "EventResponse", field |-> "type", key |-> "type", members |-> SportType],
     [cls |-> "EventResponse", field |-> "category", key |-> "category",
      members |-> EventCategory],
     [cls |-> "Athlete", field |-> "status", key |-> "status", members |-> AthleteStatus],
     [cls |-> "CustomItem", field |-> "type", key |-> "type", members |-> CustomItemType],
     [cls |-> "CustomItem", field |-> "visibility", key |-> "visibility",
      members |-> CustomItemVisibility],
     [cls |-> "WellnessEntry", field |-> "menstrual_phase", key |-> "menstrualPhase",
      members |-> MenstrualPhase]}

\* The values the key of an enum field is given: null, every member of the
\* vocabulary, an unknown string, the empty string and a number
EnumValues(members) ==
    {None, JStr("VirtualRow"), JStr(""), JInt(5)} \cup {JStr(m) : m \in members}

\* The list fields a from_dict builds from nested objects: the key read and
\* the class each object is parsed to ("dict" when the object is kept as is)
NestedListFields ==
    {[cls |-> "IntervalsData", field |-> "icu_intervals", key |-> "icu_intervals",
      item |-> "ActivityInterval"],
     [cls |-> "IntervalsData", field |-> "icu_groups", key |-> "icu_groups",
      item |-> "ActivityIntervalGroup"],
     [cls |-> "WellnessEntry", field |-> "sport_info", key |-> "sportInfo",
      item |-> "WellnessSportInfo"],
     [cls |-> "Folder", field |-> "workouts", key |-> "workouts", item |-> "Workout"],
     [cls |-> "EventWorkout", field |-> "intervals", key |-> "intervals",
      item |-> "dict"]}

\* The items of a heterogeneous array: two objects that every nested class
\* tells apart, and null, a string and a number
NestedItems ==
    {Dict2("id", JInt(1), "type", JStr("Ride")), Dict2("id", JInt(2), "type", JStr("Run")),
     None, JStr("garbage"), JInt(42)}

\* The values the key of a nested list field is given: null and the arrays
\* of at most MaxNested items
NestedValues == {None} \cup {JList(l) : l \in SeqsUpTo(NestedItems, MaxNested)}

\* The classes with a to_dict, the write-path entities
WriteClasses == {"CustomItem", "Workout", "EventRequest"}

\* self.to_dict()
to_dict(cls, self) ==
    CASE cls = "CustomItem" -> CustomItem_to_dict(self)
      [] cls = "Workout" -> Workout_to_dict(self)
      [] cls = "EventRequest" -> EventRequest_to_dict(self)

\* The keys a write-path entity is built from and a value for each, the
\* falsy values 0, false and '' among them; for EventRequest the keyword
\* arguments without a default come first
WriteFields(cls) ==
    CASE cls = "CustomItem" ->
           <<<<"id", JInt(7)>>, <<"name", JStr("Zones")>>, <<"type", JStr("ZONES")>>,
             <<"description", JStr("")>>, <<"visibility", JStr("PRIVATE")>>,
             <<"index", JInt(0)>>, <<"hide_script", JBool(FALSE)>>,
             <<"content", Dict1("k", JInt(1))>>>>
      [] cls = "Workout" ->
           <<<<"id", JInt(7)>>, <<"athlete_id", JStr("i1")>>, <<"name", JStr("Sweet Spot")>>,
             <<"description", JStr("")>>, <<"type", JStr("Ride")>>,
             <<"folder_id", JInt(0)>>, <<"tags", JList(<<JStr("key")>>)>>,
             <<"indoor", JBool(FALSE)>>, <<"distance", JInt(0)>>,
             <<"color", JStr("red")>>, <<"moving_time", JInt(3600)>>,
             <<"icu_training_load", JInt(0)>>, <<"target", JStr("POWER")>>,
             <<"workout_doc", Dict2("description", JStr("Hard ride"),
                                    "duration", JInt(3600))>>>>
      [] cls = "EventRequest" ->
           <<<<"start_date_local", JStr("2024-01-15T00:00:00")>>,
             <<"name", JStr("Race")>>, <<"category", JStr("RACE_A")>>,
             <<"type", JStr("Run")>>, <<"description", JStr("")>>,
             <<"moving_time", JInt(0)>>, <<"distance", JInt(0)>>>>

\* The raw dicts a write-path entity is built from: those holding at most
\* MaxSet of its keys (the required ones always)
WriteInputs(cls) ==
    LET fields == WriteFields(cls)
        required == IF cls = "EventRequest" THEN {1, 2} ELSE {}
    IN {JDict(SelectSeq(fields, LAMBDA p : \E i \in chosen \cup required : fields[i] = p)) :
          chosen \in {c \in SUBSET (1..Len(fields)) : Cardinality(c) <= MaxSet}}

\* A key the raw dict does not hold
Absent == [t |-> "absent"]

\* The values a key of an aliased field is given: null, and values of the
\* field's kind, the falsy ones (0, false, '', [], {}) among them
SchemaValues(kind) ==
    {None} \cup
    CASE kind = "num" -> {JInt(0), JInt(1), JInt(2), JBool(FALSE)}
      [] kind = "str" -> {JStr(""), JStr("Oslo"), JStr("Bergen")}
      [] kind = "list" -> {JList(<<>>), JList(<<JInt(1)>>), JList(<<JInt(2)>>)}
      [] kind = "doc" -> {JDict(<<>>), Dict1("duration", JInt(60)),
                          Dict1("duration", JInt(90))}
      [] kind = "workouts" -> {JList(<<>>), JList(<<Dict1("id", JInt(1))>>),
                               JList(<<Dict1("id", JInt(2))>>)}

\* The raw dict that gives keys[i] the value vs[i], leaving out the absent
DictOfKeys(keys, vs) ==
    LET present == SelectSeq([i \in 1..Len(keys) |-> i], LAMBDA i : vs[i] # Absent)
    IN JDict([j \in 1..Len(present) |-> <<keys[present[j]], vs[present[j]]>>])

\* The step objects of a workout document: plain steps, a step with a power
\* target, a repeat holding a nested step, and a step with a key that
\* Step.from_dict does not read
StepDocs ==
    LET ftp == Dict2("value", JInt(0), "units", JStr("%ftp"))
        effort == Dict2("power", ftp, "duration", JInt(300))
    IN {Dict2("duration", JInt(600), "intensity", JStr("warmup")),
        effort,
        Dict2("steps", JList(<<effort>>), "duration", JInt(0)),
        Dict1("power", Dict3("target", JStr("lap"), "value", JInt(90),
                             "units", JStr("%hr"))),
        Dict2("duration", JInt(60), "note", JStr("easy"))}

\* The keys of a workout document, in an order other than the one
\* WorkoutDoc.to_dict writes them in
WorkoutDocKeys ==
    <<"steps", "target", "sportSettings", "pace_units", "duration", "description">>

\* The values each key of a workout document is given
WorkoutDocValues(key) ==
    {Absent} \cup
    CASE key = "steps" -> {JList(l) : l \in SeqsUpTo(StepDocs, MaxSteps)}
      [] key = "target" -> {JStr("POWER"), None}
      [] key = "sportSettings" -> {JDict(<<>>), Dict1("types", JList(<<JStr("Ride")>>))}
      [] key = "pace_units" -> {JStr("MINS_KM"), JStr("bogus")}
      [] key = "duration" -> {JInt(0)}
      [] key = "description" -> {JStr("")}

\* Every way of giving the first n keys of a workout document a value
RECURSIVE WorkoutDocChoices(_)
WorkoutDocChoices(n) ==
    IF n = 0 THEN {<<>>}
    ELSE {Append(vs, v) : vs \in WorkoutDocChoices(n - 1),
                          v \in WorkoutDocValues(WorkoutDocKeys[n])}

\* The workout documents of the model
WorkoutDocs ==
    {DictOfKeys(WorkoutDocKeys, vs) : vs \in WorkoutDocChoices(Len(WorkoutDocKeys))}

\* The raw workouts that carry a workout document, under either key
WorkoutDocInputs ==
    {Dict2("name", JStr("Intervals"), key, doc) :
       key \in {"workout_doc", "workoutDoc"}, doc \in WorkoutDocs}

\* The raw dicts handed to cls.from_dict: the empty dict, for every aliased
\* field of cls every way of giving its keys values, for every enum field of
\* cls every value of its key, and for every nested list field of cls every
\* array
SchemaInputs(cls) ==
    {JDict(<<>>)}
    \cup UNION {{DictOfKeys(al.keys, vs) :
                   vs \in [1..Len(al.keys) -> SchemaValues(al.kind) \cup {Absent}]} :
                al \in {x \in AliasedFields : x.cls = cls}}
    \cup UNION {{Dict1(en.key, v) : v \in EnumValues(en.members)} :
                en \in {x \in EnumFields : x.cls = cls}}
    \cup UNION {{Dict1(nl.key, v) : v \in NestedValues} :
                nl \in {x \in NestedListFields : x.cls = cls}}
    \cup (IF cls \in WriteClasses THEN WriteInputs(cls) ELSE {})
    \cup (IF cls = "Workout" THEN WorkoutDocInputs ELSE {})

SchemaInit ==
    /\ config_athlete_id = JStr("")
    /\ flaky_from_dict = None
    /\ pc = "idle"
    /\ tool = "none"
    /\ args = NoArgs
    /\ athlete_id_to_use = None
    /\ requests = <<>>
    /\ in_flight = 0
    /\ result = None
    /\ more_result = None
    /\ activities = <<>>
    /\ returned = NotReturned
    /\ schema_cls \in EntityClasses \cup WriteClasses
    /\ schema_data \in IF schema_cls \in EntityClasses THEN SchemaInputs(schema_cls)
                        ELSE WriteInputs(schema_cls)
    /\ schema_obj = NotParsed
    /\ schema_dict = None
    /\ http_attempts = <<>>
    /\ request_result = Pending

\* obj = cls.from_dict(data)
FromDict ==
    /\ schema_cls \in EntityClasses
    /\ schema_obj = NotParsed
    /\ schema_obj' = from_dict(schema_cls, schema_data)
    /\ UNCHANGED <<tool_vars, client_vars, schema_cls, schema_data, schema_dict>>

\* obj = EventRequest(**data)
Construct ==
    /\ schema_cls = "EventRequest"
    /\ schema_obj = NotParsed
    /\ schema_obj' = EventRequest_init(schema_data)
    /\ UNCHANGED <<tool_vars, client_vars, schema_cls, schema_data, schema_dict>>

\* d = obj.to_dict()
ToDict ==
    /\ schema_cls \in WriteClasses
    /\ schema_obj.ok
    /\ schema_dict = None
    /\ schema_dict' = to_dict(schema_cls, schema_obj.val)
    /\ UNCHANGED <<tool_vars, client_vars, schema_cls, schema_data, schema_obj>>

SchemaNext ==
    \/ FromDict
    \/ Construct
    \/ ToDict

SchemaSpec == SchemaInit /\ [][SchemaNext]_vars

------------------------------------------------------------------------------
(* The request helper, api.client.make_intervals_request: one call of it,  *)
(* as the specification's retry and propagation policies describe it.      *)

\* What one HTTP attempt can come to: a response with a status (and, for a
\* 200, its JSON body), or a connection-level error
HttpOutcomes ==
    {[kind |-> "response", status |-> 200, body |-> b] :
        b \in {None, JList(<<>>), Dict1("id", JInt(1))}}
    \cup {[kind |-> "response", status |-> st, body |-> None] :
             st \in {400, 401, 404, 422, 429, 500, 503}}
    \cup {[kind |-> "connect_error", status |-> 0, body |-> None]}

IsSuccess(o) == o.kind = "response" /\ o.status \in 200..299

\* Every failure taken for a transient one
IsTransient_any_failure(o) == ~IsSuccess(o)

\* A transient failure: HTTP 429, a 5xx status, or a connection-level error
IsTransient(o) ==
    \/ o.kind = "connect_error"
    \/ o.kind = "response" /\ (o.status = 429 \/ o.status \in 500..599)

\* The uniform structured error value a terminal failure is converted into
ErrorOf(o) ==
    JDict(<<<<"error", JBool(TRUE)>>,
            <<"status_code", IF o.kind = "response" THEN JInt(o.status) ELSE None>>,
            <<"message", JStr(IF o.kind = "response" THEN "HTTP error"
                              ELSE "Request error")>>>>)

RequestInit ==
    /\ config_athlete_id = JStr("")
    /\ flaky_from_dict = None
    /\ pc = "idle"
    /\ tool = "none"
    /\ args = NoArgs
    /\ athlete_id_to_use = None
    /\ requests = <<>>
    /\ in_flight = 0
    /\ result = None
    /\ more_result = None
    /\ activities = <<>>
    /\ returned = NotReturned
    /\ schema_cls = "none"
    /\ schema_data = None
    /\ schema_obj = NotParsed
    /\ schema_dict = None
    /\ http_attempts = <<>>
    /\ request_result = Pending

\* One HTTP attempt with outcome o: a success returns the parsed body, a
\* transient failure is retried (after the backoff) while attempts remain,
\* any other failure, and a transient one on the last attempt, returns the
\* error value
Attempt(o) ==
    /\ request_result = Pending
    /\ Len(http_attempts) < MaxAttempts
    /\ http_attempts' = Append(http_attempts, o)
    /\ request_result' =
          IF IsSuccess(o) THEN Ok(o.body)
          ELSE IF IsTransient(o) /\ Len(http_attempts) + 1 < MaxAttempts THEN Pending
          ELSE Ok(ErrorOf(o))
    /\ UNCHANGED <<tool_vars, schema_vars>>

RequestNext == \E o \in HttpOutcomes : Attempt(o)

\* every attempt ends: the transport has its connect and read timeouts
RequestSpec == RequestInit /\ [][RequestNext]_vars /\ WF_vars(RequestNext)

------------------------------------------------------------------------------
(* The claims.                                                             *)

\* sub occurs in text, and how often
Occurrences(text, sub) ==
    Cardinality({i \in 1..(Len(text) - Len(sub) + 1) :
                    SubSeq(text, i, i + Len(sub) - 1) = sub})

Contains(text, sub) == Occurrences(text, sub) > 0

\* The objects of a list response
ObjectsOf(res) == IF IsList(res) THEN SelectSeq(res.l, IsDict) ELSE <<>>

\* C1: every tool function, whatever the request helper returns, ends by
\* returning a string; no exception escapes to the caller.
C1_EveryToolReturnsAString ==
    pc = "done" => returned.kind = "str"

\* C4: in get_activities, when one activity of the list fails to parse or
\* format (and the list fits the limit), the tool still returns a string that
\* holds every other activity and exactly one placeholder
\* '[Activity <id>: failed to format]' for the failed one.
C4_ActivityPlaceholder ==
    LET acts == ObjectsOf(result)
        failed == {i \in 1..Len(acts) : ~Activity_from_dict(acts[i]).ok}
    IN (/\ pc = "done" /\ tool = "get_activities" /\ Len(requests) = 1
        /\ args.include_unnamed /\ Len(acts) <= args.limit
        /\ Cardinality(failed) = 1)
       => /\ returned.kind = "str"
          /\ \A i \in 1..Len(acts) :
               IF i \in failed
               THEN Occurrences(returned.text,
                                <<Lit("[Activity "), Val(GetOr(acts[i], "id", JStr("unknown"))),
                                  Lit(": failed to format]")>>) = 1
               ELSE Contains(returned.text, <<Val(GetOr(acts[i], "name", JStr("Unnamed")))>>)

\* The object-valued entries of a wellness response in either shape, each
\* with the id or date its placeholder names
C5_Entries ==
    IF IsDict(result)
    THEN LET objs == SelectSeq(result.kv, LAMBDA p : IsDict(p[2]))
         IN [i \in 1..Len(objs) |->
               [data |-> IF Has(objs[i][2], "id") THEN objs[i][2]
                         ELSE With(objs[i][2], "id", JStr(objs[i][1])),
                label |-> JStr(objs[i][1])]]
    ELSE LET objs == ObjectsOf(result)
         IN [i \in 1..Len(objs) |->
               [data |-> objs[i], label |-> GetOr(objs[i], "id", JStr("unknown"))]]

\* C5: in get_wellness_data, for a list and for an object keyed by date, the
\* tool returns a string holding one block per object-valued entry: the
\* placeholder '[Wellness data for <id or date>: failed to format]' for an
\* entry that fails to parse, the formatted entry for every other one.
C5_WellnessPlaceholder ==
    (/\ pc = "done" /\ tool = "get_wellness_data" /\ Len(requests) = 1
     /\ ~(IsDict(result) /\ Has(result, "error")) /\ Len(C5_Entries) > 0)
    => /\ returned.kind = "str"
       /\ returned.text =
            <<Lit("Wellness Data:")>>
            \o Concat([i \in 1..Len(C5_Entries) |->
                 IF WellnessEntry_from_dict(C5_Entries[i].data).ok
                 THEN <<Lit("Wellness Data:"), Lit("Date: "),
                        Val(GetOr(C5_Entries[i].data, "id", JStr("N/A")))>>
                 ELSE <<Lit("[Wellness data for "), Val(C5_Entries[i].label),
                        Lit(": failed to format]")>>])

\* C6: in list_workouts, when one workout fails to parse, the output holds
\* every well-formed workout and the placeholder
\* '[Workout <id>: failed to format]' for the failed one.
C6_WorkoutPlaceholder ==
    LET ws == ObjectsOf(result)
        failed == {i \in 1..Len(ws) : ~Workout_from_dict(ws[i]).ok}
    IN (/\ pc = "done" /\ tool = "list_workouts" /\ Len(requests) = 1
        /\ Cardinality(failed) = 1)
       => /\ returned.kind = "str"
          /\ \A i \in 1..Len(ws) :
               IF i \in failed
               THEN Contains(returned.text,
                             <<Lit("[Workout "), Val(GetOr(ws[i], "id", JStr("unknown"))),
                               Lit(": failed to format]")>>)
               ELSE Contains(returned.text, <<Val(GetOr(ws[i], "name", JStr("Unnamed")))>>)

\* C7: in search_activities and search_intervals, when one search result
\* fails to parse with a TypeError, KeyError or ValueError, the tool still
\* returns a string that holds every well-formed result and the placeholder
\* '[Search result <id>: failed to format]' for the failed one.
C7_SearchPlaceholder ==
    LET rs == ObjectsOf(result)
        failed == {i \in 1..Len(rs) : ~Activity_from_dict(rs[i]).ok}
    IN (/\ pc = "done" /\ tool \in {"search_activities", "search_intervals"}
        /\ Len(requests) = 1 /\ Cardinality(failed) = 1
        /\ \A i \in failed : Activity_from_dict(rs[i]).exc \in Caught)
       => /\ returned.kind = "str"
          /\ \A i \in 1..Len(rs) :
               IF i \in failed
               THEN Contains(returned.text,
                             <<Lit("[Search result "), Val(GetOr(rs[i], "id", JStr("unknown"))),
                               Lit(": failed to format]")>>)
               ELSE Contains(returned.text, <<Val(GetOr(rs[i], "name", JStr("Unnamed")))>>)

\* The structured error values of make_intervals_request
ErrorValues == {ErrorValue(m) : m \in Messages}

\* text is 'Error', what the tool was doing, and the message: nothing else
IsErrorReport(text, message) ==
    /\ Len(text) = 3
    /\ text[1] = Lit("Error")
    /\ "lit" \in DOMAIN text[2]
    /\ text[3] = Val(JStr(message))

C3_NoAthleteIdNoRequest ==
    (tool \in AthleteTools /\ args.athlete_id = None /\ ~Truthy(config_athlete_id))
    => /\ pc = "done"
       /\ requests = <<>>
       /\ in_flight = 0
       /\ returned.kind = "str"
       /\ returned.text[1] = Lit("Error")

C3_Witness ==
    /\ pc = "done" /\ tool = "create_custom_item"
    /\ args.athlete_id = None /\ config_athlete_id = JStr("")
    /\ requests = <<>> /\ returned.kind = "str"

\* The first response of get_activities has come
C8_FirstPageSeen ==
    /\ tool = "get_activities" /\ pc \in {"await_more", "done"} /\ Len(requests) >= 1
    /\ ~(IsDict(result) /\ Has(result, "error"))

\* The named activities the first page yields
C8_Named == SelectSeq(_parse_activities_from_result(result), IsNamed)

\* The start date of the first request can be read as a date
C8_StartDateParses == IsValidDate(requests[1].params.oldest.ymd)

\* C8 (amended): in get_activities with include_unnamed=false and a non-error
\* first response, exactly one supplementary request is issued when the first
\* page holds at least one activity object, yields fewer than `limit` named
\* activities and the start date is a date; none is issued otherwise; with
\* include_unnamed=true none is ever issued.
C8_OneSupplementaryRequest ==
    C8_FirstPageSeen
    => /\ Len(requests) \in {1, 2}
       /\ Len(requests) = 2
            <=> /\ ~args.include_unnamed
                /\ _parse_activities_from_result(result) # <<>>
                /\ Len(C8_Named) < args.limit
                /\ C8_StartDateParses

C8_Witness ==
    /\ C8_FirstPageSeen /\ pc = "await_more" /\ ~args.include_unnamed
    /\ Len(C8_Named) = 1 /\ args.limit = 2 /\ Len(requests) = 2

\* C8 (as stated, for start dates that are dates): with include_unnamed=false
\* and a non-error first response, exactly one supplementary request is issued
\* when the first page yields fewer than `limit` named activities, none when it
\* yields at least `limit`; with include_unnamed=true none is ever issued.
C8_SupplementaryWheneverShort ==
    (C8_FirstPageSeen /\ C8_StartDateParses)
    => IF ~args.include_unnamed /\ Len(C8_Named) < args.limit
       THEN Len(requests) = 2
       ELSE Len(requests) = 1

\* C9: an invocation calls the request helper at most twice, the second call
\* starts only after the first has completed, and only get_activities makes a
\* second call.
C9_AtMostTwoSequentialCalls ==
    /\ Len(requests) <= 2
    /\ in_flight <= 1
    /\ in_flight = (IF pc \in {"await_first", "await_more"} THEN 1 ELSE 0)
    /\ Len(requests) = 2 => tool = "get_activities"
    /\ pc = "await_more" => Len(requests) = 2
    /\ pc = "await_first" => Len(requests) = 1

C9_Witness ==
    pc = "done" /\ tool = "get_activities" /\ Len(requests) = 2 /\ in_flight = 0

\* C10 (amended): the supplementary request of get_activities covers the 60
\* days before the start date of the first request: its `newest` bound is the
\* day before that start date and its `oldest` bound is 60 days before it.
C10_BackfillRange ==
    (tool = "get_activities" /\ Len(requests) = 2)
    => /\ requests[2].params.newest = JDate(MinusDays(requests[1].params.oldest.ymd, 1))
       /\ requests[2].params.oldest = JDate(MinusDays(requests[1].params.oldest.ymd, 60))

C10_Witness ==
    /\ tool = "get_activities" /\ Len(requests) = 2
    /\ requests[1].params.oldest = JDate(<<2024, 3, 1>>)
    /\ requests[2].params.newest = JDate(<<2024, 2, 29>>)
    /\ requests[2].params.oldest = JDate(<<2024, 1, 1>>)

\* The dates of the activities of the first page
C10_FirstPageDates ==
    {Get(act, "start_date_local").ymd :
        act \in {x \in Range(_parse_activities_from_result(result)) :
                    Has(x, "start_date_local")}}

\* C10 (as stated): the supplementary request covers the 60 days before the
\* earliest activity of the first page: `newest` is the day before that
\* activity's date and `oldest` is 60 days before it.
C10_RangeBeforeEarliestActivity ==
    (tool = "get_activities" /\ Len(requests) = 2 /\ C10_FirstPageDates # {})
    => LET earliest == CHOOSE d \in C10_FirstPageDates :
                           \A e \in C10_FirstPageDates : DateStrGeq(e, d)
       IN /\ requests[2].params.newest = JDate(MinusDays(earliest, 1))
          /\ requests[2].params.oldest = JDate(MinusDays(earliest, 60))

\* The activity list get_activities is to show after its second response:
\* the named first-page activities, then the named supplementary ones, cut
\* to `limit`
C11_Merged ==
    Truncate(activities \o SelectSeq(ObjectsOf(more_result), IsNamed), args.limit)

\* C11: after the supplementary response, get_activities returns a text that
\* holds exactly the first `limit` activities of (named first-page activities
\* followed by named supplementary activities), in that order, one entry
\* (formatted, or the placeholder for one that fails to parse) per activity.
C11_MergedThenTruncated ==
    (/\ pc = "done" /\ tool = "get_activities" /\ Len(requests) = 2
     /\ IsList(more_result) /\ \A i \in 1..Len(more_result.l) : IsDict(more_result.l[i])
     /\ C11_Merged # <<>>)
    => /\ returned.kind = "str"
       /\ returned.text =
            <<Lit("Activities:")>>
            \o Concat([i \in 1..Len(C11_Merged) |->
                 IF Activity_from_dict(C11_Merged[i]).ok
                 THEN <<Lit("Activity: "),
                        Val(GetOr(C11_Merged[i], "name", JStr("Unnamed"))),
                        Lit("ID: "), Val(GetOr(C11_Merged[i], "id", JStr("N/A")))>>
                 ELSE <<Lit("[Activity "),
                        Val(GetOr(C11_Merged[i], "id", JStr("unknown"))),
                        Lit(": failed to format]")>>])

\* The custom-item tools that take a `content` argument
C12_ContentTools == {"create_custom_item", "update_custom_item"}

\* The `content` argument is a string that json.loads rejects
C12_ContentIsNotJson ==
    /\ tool \in C12_ContentTools
    /\ args.content.t = "str"
    /\ ~json_loads(args.content.s).ok

C12_ValidationError ==
    Returns(<<Lit("Error"), Lit(": content must be valid JSON when passed as a string.")>>)

\* C12 (amended): create_custom_item and update_custom_item, called with a
\* `content` string that is not valid JSON, never call the request helper,
\* and when an athlete id is available (given or configured) they return
\* exactly 'Error: content must be valid JSON when passed as a string.'.
C12_InvalidJsonContentRejected ==
    C12_ContentIsNotJson
    => /\ pc = "done"
       /\ requests = <<>>
       /\ in_flight = 0
       /\ (Truthy(args.athlete_id) \/ Truthy(config_athlete_id))
            => returned = C12_ValidationError

C12_Witness ==
    /\ C12_ContentIsNotJson /\ tool = "update_custom_item" /\ pc = "done"
    /\ requests = <<>> /\ returned = C12_ValidationError

\* C12 (as stated): called with a `content` string that is not valid JSON,
\* they return exactly that validation error, whatever the athlete id is.
C12_AlwaysTheValidationError ==
    C12_ContentIsNotJson
    => /\ pc = "done"
       /\ requests = <<>>
       /\ returned = C12_ValidationError

\* A request of create_custom_item or update_custom_item whose body has a
\* `content` field has been made
C13_ContentSent ==
    /\ tool \in C12_ContentTools
    /\ Len(requests) = 1
    /\ Has(requests[1].data, "content")

\* C13 (amended): whenever create_custom_item or update_custom_item sends a
\* request whose body has a `content` field, that field is never the caller's
\* unparsed string: a `content` string is replaced by the value json.loads
\* reads from it (a dict when the string holds a JSON object), and a
\* `content` that is no string is sent as it came.
C13_ContentIsParsed ==
    C13_ContentSent
    => LET sent == Get(requests[1].data, "content")
       IN IF args.content.t = "str"
          THEN /\ json_loads(args.content.s).ok
               /\ sent = json_loads(args.content.s).val
               /\ sent # args.content
               /\ args.content.s = "{\"k\": 1}" => sent = Dict1("k", JInt(1))
          ELSE sent = args.content

C13_Witness ==
    /\ C13_ContentSent /\ tool = "create_custom_item" /\ pc = "await_first"
    /\ args.content = JStr("{\"k\": 1}")
    /\ Get(requests[1].data, "content") = Dict1("k", JInt(1))

\* C13 (as stated): whenever such a request has a `content` field, that field
\* is a dict and never a string.
C13_ContentIsADict ==
    C13_ContentSent => IsDict(Get(requests[1].data, "content"))

\* The item of `events` is not an object, lacks a required key, or carries an
\* `indoor` that is no bool or a `tags` that is no list of strings
C14_Offending(ev) ==
    \/ ~IsDict(ev)
    \/ ~Has(ev, "start_date_local")
    \/ ~Has(ev, "category")
    \/ Has(ev, "indoor") /\ Get(ev, "indoor") \notin {JBool(TRUE), JBool(FALSE)}
    \/ /\ Has(ev, "tags")
       /\ ~(IsList(Get(ev, "tags")) /\ \A x \in Range(Get(ev, "tags").l) : x.t = "str")

\* What the returned text must name for the offending item at index i
C14_Named(text, ev, i) ==
    /\ Contains(text, <<Lit("Event "), Val(JInt(i))>>)
    /\ ~IsDict(ev) => Contains(text, <<Lit("Event "), Val(JInt(i)), Lit("expected a dict")>>)
    /\ IsDict(ev) =>
         /\ \A k \in {"start_date_local", "category"} :
                ~Has(ev, k) => Contains(text, <<Val(JStr(k))>>)
         /\ (Has(ev, "indoor") /\ Get(ev, "indoor").t # "bool")
                => Contains(text, <<Lit("'indoor' must be")>>)
         /\ (Has(ev, "tags") /\ ~IsListOfStr(Get(ev, "tags")))
                => Contains(text, <<Lit("'tags' must be a list of strings")>>)

C15_ObjectWriters ==
    {"add_activity_message", "create_custom_item", "update_custom_item",
     "create_season", "update_season"}

\* The 'unexpected response' strings of the tools
C15_UnexpectedResponseTexts ==
    {<<Lit("Error"), Lit(": Unexpected response when adding message.")>>,
     <<Lit("Error"), Lit(": Unexpected response when creating custom item.")>>,
     <<Lit("Error"), Lit(": Unexpected response when updating custom item.")>>,
     <<Lit("Error"), Lit(" creating season: unexpected response.")>>,
     <<Lit("Error"), Lit(" updating season: unexpected response.")>>}

\* The tool has had a response that is no error payload
C15_Answered(tools) ==
    /\ tool \in tools /\ pc = "done" /\ Len(requests) = 1
    /\ ~(IsDict(result) /\ Has(result, "error"))

\* C15 (amended): when the response to add_activity_message, to
\* create/update custom item or to create/update season is neither an error
\* payload nor an object (null, a scalar, a list), the tool returns its
\* 'unexpected response' string and never a success message.
C15_UnexpectedShapeReported ==
    (C15_Answered(C15_ObjectWriters) /\ ~IsDict(result))
    => /\ returned.kind = "str"
       /\ returned.text \in C15_UnexpectedResponseTexts

C15_Witness ==
    /\ C15_Answered({"update_season"}) /\ result = None
    /\ returned = Returns(<<Lit("Error"), Lit(" updating season: unexpected response.")>>)

\* C15 (as stated): the same for every write operation, delete_custom_item
\* (null or a scalar) and create_bulk_workouts (anything but a list) included.
C15_EveryWriteReportsUnexpectedShape ==
    (\/ C15_Answered(C15_ObjectWriters) /\ ~IsDict(result)
     \/ C15_Answered({"create_bulk_workouts"}) /\ ~IsList(result)
     \/ C15_Answered({"delete_custom_item"}) /\ ~IsDict(result) /\ ~IsList(result))
    => /\ returned.kind = "str"
       /\ returned.text[1] = Lit("Error")

\* The four outcomes of add_activity_message
C16_IsErrorOutcome ==
    /\ Len(returned.text) = 3
    /\ returned.text[1] = Lit("Error")
    /\ returned.text[2] = Lit(" adding message to activity: ")
C16_IsUnexpectedOutcome ==
    returned.text = <<Lit("Error"), Lit(": Unexpected response when adding message.")>>
C16_IsSuccessOutcome ==
    /\ Len(returned.text) = 4
    /\ returned.text[1] = Lit("Successfully added message (ID: ")
C16_IsVerifyOutcome ==
    /\ Len(returned.text) = 3
    /\ returned.text[1] = Lit("Message appears to have been added to activity ")
    /\ returned.text[3] = Lit(", but no ID was returned. Please verify manually.")

\* C16: add_activity_message issues exactly one POST whose body is
\* {content: <text>}, and its response decides the outcome: an error payload
\* gives 'Error adding message to activity: <message>'; null, an empty value
\* or a non-object gives 'Error: Unexpected response when adding message.';
\* an object with a non-null id gives 'Successfully added message (ID: <id>)';
\* an object without id (or with a null id) gives the 'appears to have been
\* added ... verify manually' message. Exactly one of the four holds.
C16_AddActivityMessage ==
    (tool = "add_activity_message" /\ pc # "idle")
    => /\ Len(requests) = 1
       /\ requests[1].method = "POST"
       /\ requests[1].endpoint = "/activity/{activity_id}/messages"
       /\ requests[1].id = args.activity_id
       /\ requests[1].data = JDict(<<<<"content", args.content>>>>)
       /\ pc = "done" =>
            /\ returned.kind = "str"
            /\ C16_IsErrorOutcome <=> (IsDict(result) /\ Has(result, "error"))
            /\ C16_IsErrorOutcome
                 => returned.text[3] = Val(GetOr(result, "message", JStr("Unknown error")))
            /\ C16_IsUnexpectedOutcome <=> (~IsDict(result) \/ result = JDict(<<>>))
            /\ C16_IsSuccessOutcome
                 <=> (/\ IsDict(result) /\ ~Has(result, "error")
                      /\ Has(result, "id") /\ Get(result, "id") # None)
            /\ C16_IsSuccessOutcome => returned.text[2] = Val(Get(result, "id"))
            /\ C16_IsVerifyOutcome
                 <=> (/\ IsDict(result) /\ ~Has(result, "error") /\ result # JDict(<<>>)
                      /\ Get(result, "id") = None)
            /\ (IF C16_IsErrorOutcome THEN 1 ELSE 0)
               + (IF C16_IsUnexpectedOutcome THEN 1 ELSE 0)
               + (IF C16_IsSuccessOutcome THEN 1 ELSE 0)
               + (IF C16_IsVerifyOutcome THEN 1 ELSE 0) = 1

\* The response carries an id that is null
C16_Witness ==
    /\ tool = "add_activity_message" /\ pc = "done"
    /\ result = Dict2("id", None, "content", JStr("Nice"))
    /\ C16_IsVerifyOutcome

\* The object-valued entries of a wellness response keyed by date, as
\* <<date key, entry>>
C17_DatedEntries == SelectSeq(result.kv, LAMBDA p : IsDict(p[2]))

\* C17: for a wellness response that is an object keyed by date and whose
\* entries all parse, get_wellness_data returns a text with one 'Date: ...'
\* entry per object-valued key, and an entry with no id of its own is shown
\* as 'Date: <its date key>'.
C17_DateKeyBecomesId ==
    (/\ pc = "done" /\ tool = "get_wellness_data" /\ Len(requests) = 1
     /\ IsDict(result) /\ ~Has(result, "error") /\ C17_DatedEntries # <<>>
     /\ \A i \in 1..Len(C17_DatedEntries) :
            WellnessEntry_from_dict(C17_DatedEntries[i][2]).ok)
    => /\ returned.kind = "str"
       /\ Occurrences(returned.text, <<Lit("Date: ")>>) = Len(C17_DatedEntries)
       /\ \A i \in 1..Len(C17_DatedEntries) :
            Contains(returned.text,
                     <<Lit("Date: "),
                       Val(GetOr(C17_DatedEntries[i][2], "id",
                                 JStr(C17_DatedEntries[i][1])))>>)

\* C18: Workout.from_dict and Folder.from_dict do not fail when a workout's
\* workout_doc carries a malformed field (an unrecognized target, pace_units,
\* step intensity or value units, or a null steps list), and in Folder.from_dict
\* one malformed nested workout does not prevent the folder's other workouts
\* from being parsed: every object of a list_workouts response parses to a
\* Workout and every object of a list_folders response parses to a Folder
\* that holds one Workout per nested object.
C18_NestedObjects(f) ==
    LET raw == IF Truthy(Get(f, "workouts")) THEN Get(f, "workouts")
               ELSE OrEmpty(Get(f, "children"))
    IN IF IsList(raw) THEN ObjectsOf(raw) ELSE <<>>

C18_MalformedWorkoutDocTolerated ==
    LET objs == ObjectsOf(result)
    IN /\ (pc = "done" /\ tool = "list_workouts" /\ Len(requests) = 1)
          => \A i \in 1..Len(objs) : Workout_from_dict(objs[i]).ok
       /\ (pc = "done" /\ tool = "list_folders" /\ Len(requests) = 1)
          => \A i \in 1..Len(objs) :
               (IsList(Get(objs[i], "workouts")) \/ Get(objs[i], "workouts") = None)
               => /\ Folder_from_dict(objs[i]).ok
                  /\ Len(Folder_from_dict(objs[i]).val.f.workouts)
                       = Len(C18_NestedObjects(objs[i]))

\* C19: for every entity type, from_dict({}) succeeds and yields a record
\* whose scalar fields are all null and whose list fields are all empty.
C19_ListFields ==
    {"tags", "icu_intervals", "icu_groups", "sport_info", "power_zones", "hr_zones",
     "pace_zones", "workouts", "intervals"}

C19_EmptyDictGivesEmptyRecord ==
    (schema_obj # NotParsed /\ schema_data = JDict(<<>>))
    => /\ schema_obj.ok
       /\ schema_obj.val.cls = schema_cls
       /\ \A k \in DOMAIN schema_obj.val.f :
            schema_obj.val.f[k] = IF k \in C19_ListFields THEN <<>> ELSE None

C19_Witness ==
    /\ schema_cls = "EventResponse"
    /\ schema_data = JDict(<<>>)
    /\ schema_obj.ok
    /\ schema_obj.val.f.workout = None

\* C20: for every aliased field of every entity, from_dict on an input
\* holding only a legacy key gives the same field value as on an input
\* holding only the canonical key with that value, and when several keys hold
\* non-null values the value of the key of highest priority (the canonical key
\* first) is taken: the field is what from_dict makes of the canonical key
\* alone holding the first non-null value among the keys.
C20_Field(cls, field, data) == from_dict(cls, data).val.f[field]

C20_AliasFollowsPriority(al) ==
    LET held == {i \in 1..Len(al.keys) : Get(schema_data, al.keys[i]) # None}
    IN (held # {} /\ \A k \in DOMAIN schema_data.kv :
                       \E i \in 1..Len(al.keys) : schema_data.kv[k][1] = al.keys[i])
       => /\ schema_obj.ok
          /\ schema_obj.val.f[al.field]
               = C20_Field(al.cls, al.field,
                           Dict1(al.keys[1], Get(schema_data, al.keys[Min(held)])))

C20_CanonicalKeyWins ==
    schema_obj # NotParsed
    => \A al \in AliasedFields : al.cls = schema_cls => C20_AliasFollowsPriority(al)

\* C21: through from_dict a value that is present but falsy (0, false, empty
\* string, empty list) is never replaced by an alias's value or by a default:
\* for every aliased field of every entity, if the preferred key holds a falsy
\* non-null value, the normalized field equals that value and the fallback
\* keys are not used.
C21_Normalized(al, v) ==
    CASE al.kind \in {"num", "str"} -> v
      [] al.kind = "list" -> v.l
      [] al.kind = "workouts" -> <<>>
      [] al.kind = "doc" -> WorkoutDoc_from_dict(v).val

C21_FalsyPreferredKept(al) ==
    LET v == Get(schema_data, al.keys[1])
    IN (/\ v # None /\ ~Truthy(v)
        /\ \A k \in DOMAIN schema_data.kv :
              \E i \in 1..Len(al.keys) : schema_data.kv[k][1] = al.keys[i])
       => /\ schema_obj.ok
          /\ schema_obj.val.f[al.field] = C21_Normalized(al, v)

C21_FalsyValuePreserved ==
    schema_obj # NotParsed
    => \A al \in AliasedFields : al.cls = schema_cls => C21_FalsyPreferredKept(al)

\* C22: for the enum-like fields (sport type of Activity, Workout,
\* AthleteSportSettings and EventResponse; Athlete status; EventResponse
\* category; CustomItem type and visibility; WellnessEntry menstrual phase)
\* from_dict never fails on the field's value: a value in the closed
\* vocabulary is kept, an unrecognized value is kept as its plain string, and
\* null stays null.
C22_EnumFieldKept(en) ==
    LET v == Get(schema_data, en.key)
    IN (Has(schema_data, en.key) /\ Len(schema_data.kv) = 1)
       => /\ schema_obj.ok
          /\ schema_obj.val.f[en.field] =
               IF v = None THEN None
               ELSE IF IsStr(v) THEN v
               ELSE [t |-> "str_of", of |-> v]

C22_EnumValuesNeverRejected ==
    schema_obj # NotParsed
    => \A en \in EnumFields : en.cls = schema_cls => C22_EnumFieldKept(en)

C22_Witness ==
    /\ schema_cls = "CustomItem"
    /\ schema_data = Dict1("visibility", JStr("VirtualRow"))
    /\ schema_obj.ok
    /\ schema_obj.val.f.visibility = JStr("VirtualRow")

\* C23: for every list field built from nested objects (IntervalsData
\* icu_intervals and icu_groups, WellnessEntry sport_info, Folder workouts,
\* EventWorkout intervals) from_dict keeps exactly the object items of the
\* input array, in their original order, and drops every non-object item
\* (null, string, number) without failing; a null or absent array yields an
\* empty list.
C23_Kept(nl, objs) ==
    [i \in 1..Len(objs) |->
        IF nl.item = "dict" THEN objs[i] ELSE from_dict(nl.item, objs[i]).val]

C23_ObjectsOfArrayKept(nl) ==
    LET v == Get(schema_data, nl.key)
    IN (Len(schema_data.kv) = 0 \/ (Has(schema_data, nl.key) /\ Len(schema_data.kv) = 1))
       => /\ schema_obj.ok
          /\ schema_obj.val.f[nl.field] = C23_Kept(nl, ObjectsOf(v))

C23_NonObjectItemsDropped ==
    schema_obj # NotParsed
    => \A nl \in NestedListFields : nl.cls = schema_cls => C23_ObjectsOfArrayKept(nl)

C23_Witness ==
    /\ schema_cls = "Folder"
    /\ schema_data = Dict1("workouts",
                           JList(<<Dict2("id", JInt(2), "type", JStr("Run")), None,
                                   Dict2("id", JInt(1), "type", JStr("Ride"))>>))
    /\ schema_obj.ok
    /\ Len(schema_obj.val.f.workouts) = 2
    /\ schema_obj.val.f.workouts[1].f.id = JInt(2)
    /\ schema_obj.val.f.workouts[2].f.id = JInt(1)

\* C24: to_dict of CustomItem, Workout and EventRequest emits a key only for
\* a field that is set (non-null) and only keys of the API-accepted set:
\* CustomItem.to_dict never emits id, index or hide_script; Workout.to_dict
\* never emits id or athlete_id; EventRequest.to_dict always emits
\* start_date_local, category, name and type, and emits description,
\* moving_time and distance only when set.  The emitted keys are exactly the
\* accepted keys whose field is set, each once and with the field's value.
C24_Accepted(cls) ==
    CASE cls = "CustomItem" -> {"name", "type", "description", "visibility", "content"}
      [] cls = "Workout" -> {"name", "description", "type", "folder_id", "tags", "indoor",
                             "distance", "color", "moving_time", "icu_training_load",
                             "target", "workout_doc"}
      [] cls = "EventRequest" -> {"start_date_local", "category", "name", "type",
                                  "description", "moving_time", "distance"}

C24_IsSet(self, k) ==
    IF k = "tags" THEN Len(self.f.tags) > 0 ELSE self.f[k] # None

C24_Keys(d) == {d.kv[i][1] : i \in 1..Len(d.kv)}

C24_ToDictEmitsSetAcceptedFields ==
    schema_dict # None
    => LET self == schema_obj.val
           keys == C24_Keys(schema_dict)
       IN /\ Cardinality(keys) = Len(schema_dict.kv)
          /\ keys = {k \in C24_Accepted(schema_cls) : C24_IsSet(self, k)}
          /\ \A k \in keys \ {"tags", "workout_doc"} : Get(schema_dict, k) = self.f[k]
          /\ schema_cls = "CustomItem" => keys \cap {"id", "index", "hide_script"} = {}
          /\ schema_cls = "Workout" => keys \cap {"id", "athlete_id"} = {}
          /\ schema_cls = "EventRequest"
               => {"start_date_local", "category", "name", "type"} \subseteq keys

C24_Witness ==
    /\ schema_cls = "CustomItem"
    /\ schema_obj.ok
    /\ schema_obj.val.f.id = JInt(7)
    /\ schema_obj.val.f.index = JInt(0)
    /\ schema_obj.val.f.description = JStr("")
    /\ schema_dict = JDict(<<<<"description", JStr("")>>>>)

\* C25: a single call of the request helper makes a bounded number of HTTP
\* attempts: it retries only after HTTP 429, a 5xx status or a
\* connection-level error, makes exactly one attempt when the response is a
\* 4xx other than 429, and after its last attempt returns either the parsed
\* JSON body or a structured error value; it never retries forever and never
\* raises a transport exception.
C25_IsErrorValue(v) == IsDict(v) /\ Has(v, "error") /\ Has(v, "message")

C25_Retryable(o) ==
    \/ o.kind = "connect_error"
    \/ o.status = 429
    \/ o.status >= 500

C25_AttemptsAreBounded ==
    LET n == Len(http_attempts)
    IN /\ n <= MaxAttempts
       /\ \A i \in 1..(n - 1) : C25_Retryable(http_attempts[i])
       /\ (n >= 1 /\ http_attempts[1].status \in 400..499 /\ http_attempts[1].status # 429)
            => (n = 1 /\ request_result # Pending)
       /\ (n >= 1 /\ request_result = Pending) => C25_Retryable(http_attempts[n])
       /\ request_result # Pending
            => /\ request_result.ok
               /\ IF IsSuccess(http_attempts[n])
                  THEN request_result.val = http_attempts[n].body
                  ELSE C25_IsErrorValue(request_result.val)

C25_BoundedRetry == [](C25_AttemptsAreBounded) /\ <>(request_result # Pending)

C25_Witness ==
    /\ Len(http_attempts) = MaxAttempts
    /\ http_attempts[1].status = 429
    /\ http_attempts[2].kind = "connect_error"
    /\ http_attempts[MaxAttempts].status = 503
    /\ C25_IsErrorValue(request_result.val)

\* C26: the error-shape test is the same at every call site: for every
\* response value r, either every tool treats r as an upstream error (and
\* returns its error string) or no tool does; there is no response that one
\* tool reports as an error while another tool parses it as data.
C26_Tools == Tools \ EventTools

C26_ReportsError(t, r) ==
    LET out == First(t, CHOOSE a \in ArgsOf(t) : TRUE, JStr("i1"), r)
    IN /\ IsDict(r)
       /\ out.kind = "str"
       /\ Len(out.text) = 3
       /\ out.text[1] = Lit("Error")
       /\ out.text[3] \in {Val(Get(r, "message")),
                           Val(GetOr(r, "message", JStr("Unknown error")))}

C26_SameErrorTestEverywhere ==
    (pc = "done" /\ tool \in C26_Tools /\ Len(requests) = 1)
    => \A t \in C26_Tools :
         C26_ReportsError(t, result) <=> C26_ReportsError(tool, result)

\* C27: Workout.from_dict followed by Workout.to_dict preserves the workout
\* document: when the workout_doc of the input (or its workoutDoc, when
\* workout_doc is not given) is an object made only of known keys with
\* non-null, valid values, the nested objects included, the 'workout_doc'
\* of to_dict(from_dict(d)) is the same JSON document.
C27_Keys(d) == {d.kv[i][1] : i \in 1..Len(d.kv)}

RECURSIVE C27_SameJson(_, _)
C27_SameJson(a, b) ==
    CASE IsDict(a) /\ IsDict(b) ->
           /\ C27_Keys(a) = C27_Keys(b)
           /\ Len(a.kv) = Len(b.kv)
           /\ \A k \in C27_Keys(a) : C27_SameJson(Get(a, k), Get(b, k))
      [] IsList(a) /\ IsList(b) ->
           /\ Len(a.l) = Len(b.l)
           /\ \A i \in 1..Len(a.l) : C27_SameJson(a.l[i], b.l[i])
      [] OTHER -> a = b

C27_KnownValue(v) ==
    /\ IsDict(v)
    /\ C27_Keys(v) \subseteq {"value", "units", "target"}
    /\ Has(v, "value") => Get(v, "value").t = "int"
    /\ Has(v, "units") => EnumOf(ValueUnits, Get(v, "units")).ok
    /\ Has(v, "target") => EnumOf(HrTarget, Get(v, "target")).ok

RECURSIVE C27_KnownStep(_)
C27_KnownStep(s) ==
    /\ IsDict(s)
    /\ C27_Keys(s) \subseteq {"duration", "intensity", "steps", "power"}
    /\ Has(s, "duration") => Get(s, "duration").t = "int"
    /\ Has(s, "intensity") => EnumOf(Intensity, Get(s, "intensity")).ok
    /\ Has(s, "power") => C27_KnownValue(Get(s, "power"))
    /\ Has(s, "steps") => /\ IsList(Get(s, "steps"))
                          /\ \A i \in 1..Len(Get(s, "steps").l) :
                               C27_KnownStep(Get(s, "steps").l[i])

\* SportSettings has no fields, so an object of its known keys is {}
C27_KnownDoc(d) ==
    /\ IsDict(d)
    /\ C27_Keys(d) \subseteq Range(WorkoutDocKeys)
    /\ Has(d, "description") => IsStr(Get(d, "description"))
    /\ Has(d, "duration") => Get(d, "duration").t = "int"
    /\ Has(d, "pace_units") => EnumOf(PaceUnits, Get(d, "pace_units")).ok
    /\ Has(d, "target") => EnumOf(WorkoutTarget, Get(d, "target")).ok
    /\ Has(d, "sportSettings") => Get(d, "sportSettings") = JDict(<<>>)
    /\ Has(d, "steps") => /\ IsList(Get(d, "steps"))
                          /\ \A i \in 1..Len(Get(d, "steps").l) :
                               C27_KnownStep(Get(d, "steps").l[i])

\* the document the input carries: workout_doc, else workoutDoc
C27_InputDoc ==
    IF Get(schema_data, "workout_doc") # None THEN Get(schema_data, "workout_doc")
    ELSE Get(schema_data, "workoutDoc")

C27_WorkoutDocRoundTrips ==
    (schema_cls = "Workout" /\ C27_KnownDoc(C27_InputDoc))
    => /\ schema_obj # NotParsed => schema_obj.ok
       /\ schema_dict # None
            => /\ Has(schema_dict, "workout_doc")
               /\ C27_SameJson(Get(schema_dict, "workout_doc"), C27_InputDoc)

C27_Witness ==
    /\ schema_cls = "Workout"
    /\ ~Has(schema_data, "workout_doc")
    /\ C27_KnownDoc(C27_InputDoc)
    /\ Len(C27_InputDoc.kv) = Len(WorkoutDocKeys)
    /\ \E i \in 1..Len(Get(C27_InputDoc, "steps").l) :
         Has(Get(C27_InputDoc, "steps").l[i], "steps")
    /\ schema_dict # None
    /\ Get(schema_dict, "workout_doc") # C27_InputDoc
    /\ C27_SameJson(Get(schema_dict, "workout_doc"), C27_InputDoc)

\* The text get_activities is to return for the named activities acts: one
\* entry per activity, or the 'No named activities' note when there is none
C28_TextOf(acts) ==
    IF acts = <<>>
    THEN <<Lit("No named activities found for athlete "), Val(athlete_id_to_use),
           Lit(" in the specified date range. Try with include_unnamed=True to see all activities.")>>
    ELSE <<Lit("Activities:")>>
         \o Concat([i \in 1..Len(acts) |->
              IF Activity_from_dict(acts[i]).ok
              THEN <<Lit("Activity: "), Val(GetOr(acts[i], "name", JStr("Unnamed"))),
                     Lit("ID: "), Val(GetOr(acts[i], "id", JStr("N/A")))>>
              ELSE <<Lit("[Activity "), Val(GetOr(acts[i], "id", JStr("unknown"))),
                     Lit(": failed to format]")>>])

\* C28: when the supplementary request of get_activities fails (the helper
\* returns an error value) or returns something that is not a list,
\* get_activities still returns the first-page activities it already has:
\* the result counts as no extra activities, the failure is not surfaced,
\* and the returned text is that of the first page alone, never an 'Error
\* fetching activities' string.
C28_SupplementaryFailureIgnored ==
    (pc = "done" /\ tool = "get_activities" /\ Len(requests) = 2 /\ ~IsList(more_result))
    => /\ returned.kind = "str"
       /\ returned.text = C28_TextOf(Truncate(activities, args.limit))

\* C29: non-object items (null, strings, numbers) in the supplementary
\* response of get_activities are skipped exactly as they are in the
\* first-page response: the invocation ends as it does for the same
\* supplementary response without them, so they neither appear in the
\* output nor make the invocation fail.
C29_NonObjectsOfMoreSkipped ==
    (pc = "done" /\ tool = "get_activities" /\ Len(requests) = 2 /\ IsList(more_result))
    => returned = get_activities_more(args, athlete_id_to_use, activities,
                                      JList(SelectSeq(more_result.l, IsDict)))

\* The parameters of the two update tools and the body key of each
C30_Params(t) ==
    IF t = "update_custom_item"
    THEN {<<"name", "name">>, <<"item_type", "type">>, <<"description", "description">>,
          <<"content", "content">>, <<"visibility", "visibility">>}
    ELSE {<<"name", "name">>, <<"start_date", "start_date_local">>,
          <<"end_date", "end_date_local">>, <<"description", "description">>,
          <<"color", "color">>}

\* What the body is to hold for parameter p given the value v: the value,
\* a content string parsed, a date at local midnight
C30_Sent(p, v) ==
    CASE p = "content" /\ v.t = "str" -> json_loads(v.s).val
      [] p \in {"start_date", "end_date"} -> LocalMidnight(v)
      [] OTHER -> v

\* C30: update_custom_item and update_season send a PUT body that holds
\* exactly the fields the caller supplied (plus category=SEASON_START for a
\* season): a parameter left null never appears in the body, and a supplied
\* falsy value such as an empty string is still sent.
C30_BodyHoldsSuppliedFields ==
    (tool \in {"update_custom_item", "update_season"} /\ Len(requests) = 1)
    => LET body == requests[1].data
           supplied == {p \in C30_Params(tool) : args[p[1]] # None}
       IN /\ requests[1].method = "PUT"
          /\ {body.kv[i][1] : i \in 1..Len(body.kv)}
               = {p[2] : p \in supplied}
                 \cup (IF tool = "update_season" THEN {"category"} ELSE {})
          /\ Len(body.kv) = Cardinality(supplied)
                            + (IF tool = "update_season" THEN 1 ELSE 0)
          /\ \A p \in supplied : Get(body, p[2]) = C30_Sent(p[1], args[p[1]])
          /\ tool = "update_season" => Get(body, "category") = JStr("SEASON_START")
          /\ \A i \in 1..Len(body.kv) : body.kv[i][2] # None

C30_Witness ==
    /\ tool = "update_season"
    /\ pc = "await_first"
    /\ args.name = JStr("")
    /\ args.description = JStr("")
    /\ args.start_date = None
    /\ args.color = None
    /\ requests[1].data = JDict(<<<<"category", JStr("SEASON_START")>>,
                                  <<"name", JStr("")>>,
                                  <<"end_date_local", LocalMidnight(StartDate)>>,
                                  <<"description", JStr("")>>>>)

====
